---- MODULE Spec2Model ----
(***************************************************************************)
(* The per-node WebSocket connection of PyLav (pylav/websocket.py) as a    *)
(* state machine.  A step of the model is the code one asyncio task runs   *)
(* between two suspension points (await); the event loop interleaves the   *)
(* steps of the connect tasks with the calls other tasks make (send,       *)
(* manual_closure, close), with the node (frames, close of the stream)     *)
(* and with the client's shutdown.                                         *)
(***************************************************************************)
EXTENDS Integers, Sequences, FiniteSets, TLC

\* ------------------------------------------------------------------ bounds
\* connect tasks ever created (the one of __init__ and the rescheduled ones)
MaxTasks == 3
\* payloads handed to send() by other tasks
MaxPayloads == 2
\* largest finite value of max_reconnect_attempts that is tried
MaxConfiguredAttempts == 2
\* attempts one connect loop is followed for when it retries without bound
AttemptCap == 3
\* calls of node.patch_session that are followed to a success
MaxPatches == 2
\* guilds that have a player
MaxGuilds == 2
\* reconnect-probe tasks ever created
MaxProbes == 3

\* ------------------------------------------------- constants of the program
\* ExponentialBackoffWithReset(base=3)
BackoffBase == 3
\* max_reconnect_attempts = -1: retry without bound
Infinite == -1
\* self._api_version: None, or the version of a supported node
Versions == {"none", "supported"}

Tasks == 1..MaxTasks
Payloads == 1..MaxPayloads
Guilds == 1..MaxGuilds
Probes == 1..MaxProbes

\* where a connect task is suspended, or how it ended
Suspended ==
  {"start", "region", "api", "handshake", "features", "sleep", "register",
   "flush", "listen", "resume", "disconnecting"}
Ended == {"returned", "exhausted", "authfail", "noversion", "raised", "cancelled"}

\* what ws_connect does: success, ClientConnectorError, ServerDisconnectedError,
\* WSServerHandshakeError with status 401/403, with another status, and any
\* other exception (the two except clauses of connect tell them apart)
Outcomes == {"ok", "connector", "disconnected", "auth", "status", "other"}

\* inbound frames by what handle_message does with them
Frames == {"ready", "unknownOp", "unknownEvent", "malformed"}

VARIABLES
  pc,               \* connect task -> where it is suspended / how it ended
  connect_task,     \* self._connect_task: the task created last
  attempt,          \* connect task -> its local `attempt`
  backoff_exp,      \* connect task -> the exponent of its local `backoff`
  fcopy,            \* connect task -> its _message_queue.copy() while it flushes
  fnext,            \* connect task -> how many items of the copy it has sent
  ws,               \* self._ws: "none" (None), "open", "closed"
  ready,            \* self.ready (asyncio.Event)
  manual_shutdown,  \* self._manual_shutdown
  connecting,       \* self._connecting
  api_version,      \* self._api_version
  is_shutting_down, \* self.client.is_shutting_down
  session_closed,   \* self._session.closed
  message_queue,    \* self._message_queue
  max_reconnect_attempts, \* self._max_reconnect_attempts
  closer,           \* the task inside manual_closure: "idle", "wsclose", "disconnect"
  written,          \* history: payloads written to the transport, in order
  issued,           \* history: number of payloads passed to send() by callers
  accepted,         \* history: payloads send() did not refuse (no manual shutdown)
  flushed,          \* history: payloads the on-connect flush passed to send()
  during_flush,     \* history: payloads sent by another task during a flush
  last_delay,       \* history: the last backoff delay slept since a success
  shutdown_requested, \* history: manual_closure has been called
  session_id,       \* self._session_id: "none" (None) or "assigned"
  resume_key,       \* self._resume_key: "none" (None) or "key"
  resume_timeout,   \* self._resume_timeout, in seconds
  resuming_configured, \* self._resuming_configured
  patched,          \* history: calls of node.patch_session that succeeded
  player_reconnect_tasks, \* self._player_reconnect_tasks: guild -> probe (0: no key)
  probe_pc,         \* probe task -> where maybe_reconnect_player is / how it ended
  probe_guild,      \* probe task -> the guild of its player (0: not created)
  last_update,      \* history: the playerUpdate frame handled last, its player, and
                    \* whether player._update_state was called with its state
  last_fetch,       \* history: what the probe that fetched last was answered
  event_frame,      \* the event frame handled last, with what its player looked like
  event_outcome,    \* what handling that frame did: events dispatched, in order
  source_assigned,  \* the last `q.source = value` on the classified Query: value, raised
  with_index_call,  \* the last q.with_index(index): index, the Query returned
  rebuilt,          \* the last Query.from_base64: the decoded source name and uri, the Query
  encoded_track,    \* the encoded track handed to decode_track (base64 text)
  wire,             \* history: how that text was made (fields written, cut)
  decoded,          \* what the calls of decode_track made so far returned
  query_input,      \* what is handed to Query.from_string: text, and is it a Path
  file_system,      \* the file system: path -> "missing", "file", "dir"
  localfile_ok,     \* LocalFile(path).initialize() does not raise
  classified,       \* the Query from_string returned (NoQuery: not called yet)
  reclassified      \* the Query from_string returned for its canonical identifier

\* the state of the WebSocket object and of its connect tasks
wsVars ==
  <<pc, connect_task, attempt, backoff_exp, fcopy, fnext, ws, ready, manual_shutdown,
    connecting, api_version, is_shutting_down, session_closed, message_queue,
    max_reconnect_attempts, closer, written, issued, accepted, flushed,
    during_flush, last_delay, shutdown_requested, session_id,
    resume_key, resume_timeout, resuming_configured, patched>>

\* the state of the other components, which no step of the connection touches
probeVars ==
  <<player_reconnect_tasks, probe_pc, probe_guild, last_update, last_fetch>>
decVars == <<encoded_track, wire, decoded>>
qryVars == <<query_input, file_system, localfile_ok, classified, reclassified>>
evtVars == <<event_frame, event_outcome>>
opsVars == <<source_assigned, with_index_call, rebuilt>>
otherVars == <<probeVars, decVars, qryVars, evtVars, opsVars>>

vars == <<wsVars, otherVars>>

resumeVars == <<resume_key, resume_timeout, resuming_configured, patched>>
taskVars == <<attempt, backoff_exp, fcopy, fnext>>
sockVars == <<ws, ready, manual_shutdown, connecting, api_version, session_closed>>
envVars == <<is_shutting_down, max_reconnect_attempts, closer>>
sendVars == <<message_queue, written, issued, accepted, during_flush>>
histVars == <<flushed, last_delay, shutdown_requested>>

\* ----------------------------------------------------------------- helpers
Range(s) == {s[i] : i \in 1..Len(s)}

RECURSIVE Pow2(_)
Pow2(n) == IF n = 0 THEN 1 ELSE 2 * Pow2(n - 1)

Live(t) == pc[t] \in Suspended

\* WebSocket.connected
connected == ws = "open" /\ ready

\* ExponentialBackoffWithReset: delay() is base * 2^exp and the exponent then
\* grows; reset() puts the exponent back to 0
BackoffNextExp(e) == e + 1
BackoffDelay(e) == BackoffBase * Pow2(e)

\* (CancelTaskSkipped: the handler reschedules without cancelling first.)
\* Task.cancel(): a task that is not done is cancelled.  CancelledError is
\* raised at the await the task is suspended at (or, for the running task, it
\* ends cancelled); no handler of connect or _listen catches it.
CancelTaskSkipped(p, t) == p

CancelTask(p, t) ==
  IF p[t] \in Suspended THEN [p EXCEPT ![t] = "cancelled"] ELSE p

\* self._connect_task is rebound (line 374): the tasks that ended before are
\* referenced by nothing any more, and how they ended is forgotten.
Forget(p) == [t \in Tasks |-> IF p[t] \in Ended THEN "gone" ELSE p[t]]

\* the condition of connect's while loop
\* (LoopContinuesOffByOne: the bound compared with <= instead of <.)
LoopContinuesOffByOne(t) ==
  /\ ~connected
  /\ (max_reconnect_attempts = Infinite \/ attempt[t] <= max_reconnect_attempts)

LoopContinues(t) ==
  /\ ~connected
  /\ (max_reconnect_attempts = Infinite \/ attempt[t] < max_reconnect_attempts)

\* WebSocket.send: what it leaves in the queue and on the transport
send(p, reset) ==
  IF manual_shutdown THEN [queue |-> message_queue, sent |-> written]
  ELSE IF connected
    THEN IF reset
      THEN [queue |-> Append(message_queue, p), sent |-> written]
      ELSE [queue |-> message_queue, sent |-> Append(written, p)]
    ELSE [queue |-> Append(message_queue, p), sent |-> written]

\* ------------------------------------------------------------------- Init
\* Query.__init__
Query(query, source, search, start_time, index, query_type, recursive) ==
  [query |-> query, source |-> source, search |-> search, start_time |-> start_time,
   index |-> index, type |-> query_type, recursive |-> recursive]

\* None, and the exception that leaves the classifier
NoQuery == Query(<<>>, "(None)", FALSE, 0, 0, "single", FALSE)
ValueError == Query(<<>>, "(ValueError)", FALSE, 0, 0, "single", FALSE)

\* nothing has been handed to the classifier
QueryIdle ==
  /\ query_input = [text |-> <<>>, is_path |-> FALSE]
  /\ file_system = <<>>
  /\ localfile_ok = TRUE
  /\ classified = NoQuery
  /\ reclassified = NoQuery

\* no source has been assigned and no copy has been made
OpsIdle ==
  /\ source_assigned = [value |-> "none", raised |-> FALSE]
  /\ with_index_call = [index |-> 0, result |-> NoQuery]
  /\ rebuilt = [source |-> "none", uri |-> <<>>, result |-> NoQuery]

\* no event frame has been handled
EventsIdle ==
  /\ event_frame = [type |-> "none", lookup |-> "no", current |-> "none",
                    encodedTrack |-> "none", same_node |-> FALSE]
  /\ event_outcome = [raised |-> FALSE, emitted |-> <<>>, timestamp_reset |-> FALSE]

\* no track has been handed to the decoder
DecoderIdle ==
  /\ encoded_track = <<>>
  /\ wire = [kind |-> "none", fields |-> <<>>, kept |-> 0]
  /\ decoded = <<>>

\* __init__, line 144: no reconnect probe is registered.
ProbesInit ==
  /\ player_reconnect_tasks = [g \in Guilds |-> 0]
  /\ probe_pc = [i \in Probes |-> "none"]
  /\ probe_guild = [i \in Probes |-> 0]
  /\ last_update = [has_player |-> FALSE, connected |-> FALSE,
                    is_playing |-> FALSE, stale |-> FALSE, updated |-> FALSE]
  /\ last_fetch = [http_error |-> TRUE, connected |-> FALSE,
                   is_playing |-> FALSE, stale |-> FALSE]

\* __init__, lines 127-129, of a connection made without a resume key
ResumeOff ==
  /\ resume_key = "none"
  /\ resume_timeout = 0
  /\ resuming_configured = FALSE
  /\ patched = 0

\* After __init__: the first connect task is scheduled, nothing is connected.
Constructed ==
  /\ pc = [t \in Tasks |-> IF t = 1 THEN "start" ELSE "none"]
  /\ connect_task = 1
  /\ attempt = [t \in Tasks |-> 0]
  /\ backoff_exp = [t \in Tasks |-> 0]
  /\ fcopy = [t \in Tasks |-> <<>>]
  /\ fnext = [t \in Tasks |-> 0]
  /\ ws = "none"
  /\ ready = FALSE
  /\ manual_shutdown = FALSE
  /\ connecting = FALSE
  /\ api_version = "none"
  /\ is_shutting_down = FALSE
  /\ session_closed = FALSE
  /\ message_queue = <<>>
  /\ max_reconnect_attempts \in {Infinite} \cup (1..MaxConfiguredAttempts)
  /\ closer = "idle"
  /\ written = <<>>
  /\ issued = 0
  /\ accepted = {}
  /\ flushed = {}
  /\ during_flush = {}
  /\ last_delay = 0
  /\ shutdown_requested = FALSE
  /\ session_id = "none"
  /\ ProbesInit
  /\ EventsIdle /\ OpsIdle
  /\ DecoderIdle
  /\ QueryIdle

Init == Constructed /\ ResumeOff

\* ------------------------------------------------------- the connect task
\* connect(), lines 215-230: clear readiness, give up when the client shuts
\* down, else resolve the region (await).
ConnectStart(t) ==
  /\ pc[t] = "start"
  /\ ready' = FALSE
  /\ IF is_shutting_down
       THEN /\ pc' = [pc EXCEPT ![t] = "returned"]
            /\ UNCHANGED <<connecting, attempt, backoff_exp>>
       ELSE /\ pc' = [pc EXCEPT ![t] = "region"]
            /\ connecting' = TRUE
            /\ attempt' = [attempt EXCEPT ![t] = 0]
            /\ backoff_exp' = [backoff_exp EXCEPT ![t] = 0]
  /\ UNCHANGED <<connect_task, fcopy, fnext, ws, manual_shutdown, api_version, session_closed>>
  /\ UNCHANGED <<envVars, sendVars, histVars>>
  /\ UNCHANGED <<session_id, resumeVars, otherVars>>

\* The top of the while loop, reached after the region lookup and after each
\* backoff sleep: the loop condition, the manual-shutdown check, the count.
LoopTop(t) ==
  /\ pc[t] \in {"region", "sleep"}
  /\ IF ~LoopContinues(t)
       THEN /\ pc' = [pc EXCEPT ![t] = "exhausted"]
            /\ UNCHANGED <<connecting, attempt>>
       ELSE IF manual_shutdown
         THEN /\ pc' = [pc EXCEPT ![t] = "returned"]
              /\ connecting' = FALSE
              /\ UNCHANGED attempt
         ELSE /\ attempt[t] < AttemptCap
              /\ attempt' = [attempt EXCEPT ![t] = @ + 1]
              /\ pc' = [pc EXCEPT ![t] = "api"]
              /\ UNCHANGED connecting
  /\ UNCHANGED <<connect_task, backoff_exp, fcopy, fnext, ws, ready, manual_shutdown,
                 api_version, session_closed>>
  /\ UNCHANGED <<envVars, sendVars, histVars>>
  /\ UNCHANGED <<session_id, resumeVars, otherVars>>

\* Lines 246-257: the API version arrived; without one the bare Exception
\* raised at line 256 is outside the inner try, so the handler at line 320
\* logs it and connect() is over.
\* (VersionCheckRetries: the failure handled like a failed handshake.)
VersionCheckRetries(v) == IF v = "none" THEN "sleep" ELSE "handshake"

VersionCheck(v) == IF v = "none" THEN "noversion" ELSE "handshake"

ApiVersion(t) ==
  /\ pc[t] = "api"
  /\ \E v \in Versions :
       /\ api_version' = v
       /\ pc' = [pc EXCEPT ![t] = VersionCheck(v)]
  /\ UNCHANGED <<connect_task, ws, ready, manual_shutdown, connecting, session_closed>>
  /\ UNCHANGED <<taskVars, envVars, sendVars, histVars>>
  /\ UNCHANGED <<session_id, resumeVars, otherVars>>

\* Lines 258-300: ws_connect returned or raised.  A closed ClientSession
\* raises RuntimeError, which only the handler at line 320 catches.
HandshakeFailed(t, o) ==
  IF is_shutting_down
    THEN /\ pc' = [pc EXCEPT ![t] = "returned"]
         /\ connecting' = FALSE
         /\ UNCHANGED <<backoff_exp, last_delay>>
    ELSE IF o = "auth"
      THEN /\ pc' = [pc EXCEPT ![t] = "authfail"]
           /\ connecting' = FALSE
           /\ UNCHANGED <<backoff_exp, last_delay>>
      ELSE /\ pc' = [pc EXCEPT ![t] = "sleep"]
           /\ backoff_exp' = [backoff_exp EXCEPT ![t] = BackoffNextExp(@)]
           /\ last_delay' = BackoffDelay(backoff_exp[t])
           /\ UNCHANGED connecting

Handshake(t) ==
  /\ pc[t] = "handshake"
  /\ \E o \in Outcomes :
       /\ session_closed => o = "other"
       /\ CASE o = "ok" ->
                 /\ ws' = "open"
                 /\ pc' = [pc EXCEPT ![t] = "features"]
                 /\ UNCHANGED <<connecting, backoff_exp, last_delay>>
            [] o = "other" ->
                 /\ pc' = [pc EXCEPT ![t] = "raised"]
                 /\ UNCHANGED <<ws, connecting, backoff_exp, last_delay>>
            [] OTHER ->
                 /\ HandshakeFailed(t, o)
                 /\ UNCHANGED ws
  /\ UNCHANGED <<connect_task, attempt, fcopy, fnext, ready, manual_shutdown, api_version,
                 session_closed>>
  /\ UNCHANGED <<envVars, sendVars, flushed, shutdown_requested>>
  /\ UNCHANGED <<session_id, resumeVars, otherVars>>

\* Lines 260-262 and 304: update_features() returned; the backoff is reset and
\* the node is registered (await node_connect).
\* (FeaturesSkipsRegister: the read loop starts without node_connect.)
FeaturesSkipsRegister(t) ==
  /\ pc[t] = "features"
  /\ connecting' = FALSE
  /\ backoff_exp' = [backoff_exp EXCEPT ![t] = 0]
  /\ last_delay' = 0
  /\ pc' = [pc EXCEPT ![t] = "listen"]
  /\ UNCHANGED <<connect_task, attempt, fcopy, fnext, ws, ready, manual_shutdown, api_version,
                 session_closed>>
  /\ UNCHANGED <<envVars, sendVars, flushed, shutdown_requested>>
  /\ UNCHANGED <<session_id, resumeVars, otherVars>>

Features(t) ==
  /\ pc[t] = "features"
  /\ connecting' = FALSE
  /\ backoff_exp' = [backoff_exp EXCEPT ![t] = 0]
  /\ last_delay' = 0
  /\ pc' = [pc EXCEPT ![t] = "register"]
  /\ UNCHANGED <<connect_task, attempt, fcopy, fnext, ws, ready, manual_shutdown, api_version,
                 session_closed>>
  /\ UNCHANGED <<envVars, sendVars, flushed, shutdown_requested>>
  /\ UNCHANGED <<session_id, resumeVars, otherVars>>

\* Lines 305-306: node_connect() returned; a non-empty queue is copied and the
\* flush iterates over the copy (AsyncIter suspends between items).
Register(t) ==
  /\ pc[t] = "register"
  /\ IF message_queue # <<>>
       THEN /\ fcopy' = [fcopy EXCEPT ![t] = message_queue]
            /\ pc' = [pc EXCEPT ![t] = "flush"]
       ELSE /\ pc' = [pc EXCEPT ![t] = "listen"]
            /\ UNCHANGED fcopy
  /\ UNCHANGED <<connect_task, attempt, backoff_exp, fnext>>
  /\ UNCHANGED <<sockVars, envVars, sendVars, histVars>>
  /\ UNCHANGED <<session_id, resumeVars, otherVars>>

\* Lines 306-310: the next item of the copy goes through send(); after the
\* last one the queue is cleared and _listen() starts.
FlushStep(t) ==
  /\ pc[t] = "flush"
  /\ \E reset \in BOOLEAN :
       LET r == send(fcopy[t][fnext[t] + 1], reset)
           last == fnext[t] + 1 = Len(fcopy[t])
       IN /\ written' = r.sent
          /\ message_queue' = IF last THEN <<>> ELSE r.queue
          /\ pc' = [pc EXCEPT ![t] = IF last THEN "listen" ELSE "flush"]
          /\ fnext' = [fnext EXCEPT ![t] = IF last THEN 0 ELSE @ + 1]
          /\ fcopy' = [fcopy EXCEPT ![t] = IF last THEN <<>> ELSE @]
          /\ flushed' = IF last THEN flushed \cup Range(fcopy[t]) ELSE flushed
  /\ UNCHANGED <<connect_task, attempt, backoff_exp, issued, accepted, during_flush>>
  /\ UNCHANGED <<sockVars, envVars, last_delay, shutdown_requested>>
  /\ UNCHANGED <<session_id, resumeVars, otherVars>>

\* ------------------------------------------------------------ the read loop
\* handle_message, lines 386-416, by frame: does an exception leave it?  An
\* event of unknown type is logged and then still handed, as the raw dict, to
\* handle_event (line 411), whose data.guildId raises AttributeError unless the
\* client is shutting down (line 518 returns first).  msg.json() raises on a
\* malformed frame.
HandleRaises(f) ==
  \/ f = "malformed"
  \/ f = "unknownEvent" /\ ~is_shutting_down

\* the condition of line 208
\* (ResumeWantedAgain: the flag of a finished configuration is not looked at.)
ResumeWantedAgain == resume_key # "none" /\ resume_timeout > 0

ResumeWanted ==
  (~resuming_configured) /\ resume_key # "none" /\ resume_timeout > 0

\* _listen, lines 328-349, for one inbound frame f: return under manual
\* shutdown; else handle it; an exception goes to _websocket_closed() unless
\* the client is shutting down.
\* handle_ready, lines 488-496: a ready frame sets the session id and the
\* ready event and then, in configure_resume_and_timeout, awaits
\* node.patch_session when the condition of line 208 holds.
RecvFrame(t, f) ==
  /\ pc[t] = "listen"
  /\ ws = "open"
  /\ IF manual_shutdown
       THEN /\ pc' = [pc EXCEPT ![t] = "returned"]
            /\ UNCHANGED <<ws, ready, session_id>>
       ELSE /\ ready' = (ready \/ f = "ready")
            /\ session_id' = IF f = "ready" THEN "assigned" ELSE session_id
            /\ IF HandleRaises(f) /\ ~is_shutting_down
                 THEN /\ ws' = "none"
                      /\ pc' = [pc EXCEPT ![t] = "disconnecting"]
                 ELSE /\ pc' = [pc EXCEPT ![t] =
                                  IF HandleRaises(f) THEN "returned"
                                  ELSE IF f = "ready" /\ ResumeWanted THEN "resume"
                                  ELSE "listen"]
                      /\ UNCHANGED ws
  /\ UNCHANGED <<connect_task, manual_shutdown, connecting, api_version, session_closed>>
  /\ UNCHANGED <<taskVars, envVars, sendVars, histVars>>
  /\ UNCHANGED <<resumeVars, otherVars>>

\* configure_resume_and_timeout, lines 209-210: node.patch_session returned,
\* with success or with an error response, and the flag is set; or it raised,
\* and the exception leaves handle_message for the handler of _listen.
ResumeConfigured(t) ==
  /\ pc[t] = "resume"
  /\ \E o \in {"ok", "error", "raised"} :
       IF o = "raised"
         THEN /\ IF is_shutting_down
                   THEN pc' = [pc EXCEPT ![t] = "returned"] /\ UNCHANGED ws
                   ELSE pc' = [pc EXCEPT ![t] = "disconnecting"] /\ ws' = "none"
              /\ UNCHANGED <<resuming_configured, patched>>
         ELSE /\ o = "ok" => patched < MaxPatches
              /\ patched' = IF o = "ok" THEN patched + 1 ELSE patched
              /\ resuming_configured' = TRUE
              /\ pc' = [pc EXCEPT ![t] = "listen"]
              /\ UNCHANGED ws
  /\ UNCHANGED <<connect_task, ready, manual_shutdown, connecting, api_version,
                 session_closed, session_id, resume_key, resume_timeout>>
  /\ UNCHANGED <<taskVars, envVars, sendVars, histVars>>
  /\ UNCHANGED otherVars

\* _listen, line 345: the frame stream ended (the socket was closed);
\* _websocket_closed() starts: self._ws = None, await node_disconnect.
ListenEnd(t) ==
  /\ pc[t] = "listen"
  /\ ws # "open"
  /\ ws' = "none"
  /\ pc' = [pc EXCEPT ![t] = "disconnecting"]
  /\ UNCHANGED <<connect_task, ready, manual_shutdown, connecting, api_version,
                 session_closed>>
  /\ UNCHANGED <<taskVars, envVars, sendVars, histVars>>
  /\ UNCHANGED <<session_id, resumeVars, otherVars>>

\* The node, or the network, closes the socket.
ServerClose ==
  /\ ws = "open"
  /\ ws' = "closed"
  /\ UNCHANGED <<pc, connect_task, ready, manual_shutdown, connecting, api_version,
                 session_closed>>
  /\ UNCHANGED <<taskVars, envVars, sendVars, histVars>>
  /\ UNCHANGED <<session_id, resumeVars, otherVars>>

\* ---------------------------------------------------- the disconnect handler
\* _websocket_closed, lines 369-375, after node_disconnect() returned, run by
\* task `me` (0: the caller of manual_closure): the connect task is cancelled;
\* under manual shutdown close() tears the socket and the session down, else
\* a new connect task is created.
\* (RescheduleNever: the handler takes the manual-shutdown branch always.)
RescheduleNever(me) ==
  /\ pc' = CancelTask(pc, connect_task)
  /\ ws' = IF ws = "open" THEN "closed" ELSE ws
  /\ session_closed' = TRUE
  /\ UNCHANGED <<connect_task, taskVars>>

Reschedule(me) ==
  LET p1 == CancelTask(pc, connect_task)
      p2 == IF me \in Tasks /\ p1[me] \in Suspended
              THEN [p1 EXCEPT ![me] = "returned"] ELSE p1
  IN IF manual_shutdown
       THEN /\ pc' = p2
            /\ ws' = IF ws = "open" THEN "closed" ELSE ws
            /\ session_closed' = TRUE
            /\ UNCHANGED <<connect_task, taskVars>>
       ELSE /\ connect_task < MaxTasks
            /\ connect_task' = connect_task + 1
            /\ pc' = [Forget(p2) EXCEPT ![connect_task + 1] = "start"]
            /\ attempt' = [t \in Tasks |-> IF p2[t] \in Ended THEN 0 ELSE attempt[t]]
            /\ backoff_exp' = [t \in Tasks |-> IF p2[t] \in Ended THEN 0 ELSE backoff_exp[t]]
            /\ fcopy' = [t \in Tasks |-> IF p2[t] \in Ended THEN <<>> ELSE fcopy[t]]
            /\ fnext' = [t \in Tasks |-> IF p2[t] \in Ended THEN 0 ELSE fnext[t]]
            /\ UNCHANGED <<ws, session_closed>>

Disconnected(t) ==
  /\ pc[t] = "disconnecting"
  /\ Reschedule(t)
  /\ UNCHANGED <<ready, manual_shutdown, connecting, api_version>>
  /\ UNCHANGED <<envVars, sendVars, histVars>>
  /\ UNCHANGED <<session_id, resumeVars, otherVars>>

\* ------------------------------------------------------------- other tasks
\* send() called by another task with a fresh payload.
Send ==
  /\ issued < MaxPayloads
  /\ \E reset \in BOOLEAN :
       LET r == send(issued + 1, reset)
       IN /\ message_queue' = r.queue
          /\ written' = r.sent
  /\ issued' = issued + 1
  /\ accepted' = IF manual_shutdown THEN accepted ELSE accepted \cup {issued + 1}
  /\ during_flush' = IF (\E t \in Tasks : pc[t] = "flush") /\ ~manual_shutdown
                       THEN during_flush \cup {issued + 1} ELSE during_flush
  /\ UNCHANGED <<pc, connect_task>>
  /\ UNCHANGED <<taskVars, sockVars, envVars, histVars>>
  /\ UNCHANGED <<session_id, resumeVars, otherVars>>

\* manual_closure(managed_node), lines 676-680: the flag takes the argument;
\* an open socket is closed (await), else _websocket_closed() starts at once.
ManualClosure ==
  /\ closer = "idle"
  /\ \E managed_node \in BOOLEAN : manual_shutdown' = managed_node
  /\ shutdown_requested' = TRUE
  /\ IF ws = "open"
       THEN ws' = "closed" /\ closer' = "wsclose"
       ELSE ws' = "none" /\ closer' = "disconnect"
  /\ UNCHANGED <<pc, connect_task, ready, connecting, api_version, session_closed>>
  /\ UNCHANGED <<taskVars, is_shutting_down, max_reconnect_attempts, sendVars,
                 flushed, last_delay>>
  /\ UNCHANGED <<session_id, resumeVars, otherVars>>

\* manual_closure, line 680: the socket is closed; _websocket_closed(202, ...)
\* starts: self._ws = None, await node_disconnect.
CloserClosed ==
  /\ closer = "wsclose"
  /\ ws' = "none"
  /\ closer' = "disconnect"
  /\ UNCHANGED <<pc, connect_task, ready, manual_shutdown, connecting, api_version,
                 session_closed>>
  /\ UNCHANGED <<taskVars, is_shutting_down, max_reconnect_attempts, sendVars, histVars>>
  /\ UNCHANGED <<session_id, resumeVars, otherVars>>

\* _websocket_closed of manual_closure, after node_disconnect() returned.
CloserDisconnected ==
  /\ closer = "disconnect"
  /\ Reschedule(0)
  /\ closer' = "idle"
  /\ UNCHANGED <<ready, manual_shutdown, connecting, api_version>>
  /\ UNCHANGED <<is_shutting_down, max_reconnect_attempts, sendVars, histVars>>
  /\ UNCHANGED <<session_id, resumeVars, otherVars>>

\* close(), lines 670-673, called by another task.
Close ==
  /\ pc' = CancelTask(pc, connect_task)
  /\ ws' = IF ws = "open" THEN "closed" ELSE ws
  /\ session_closed' = TRUE
  /\ UNCHANGED <<connect_task, ready, manual_shutdown, connecting, api_version>>
  /\ UNCHANGED <<taskVars, envVars, sendVars, histVars>>
  /\ UNCHANGED <<session_id, resumeVars, otherVars>>

\* The client starts shutting down.
ClientShutdown ==
  /\ ~is_shutting_down
  /\ is_shutting_down' = TRUE
  /\ UNCHANGED <<pc, connect_task, max_reconnect_attempts, closer>>
  /\ UNCHANGED <<taskVars, sockVars, sendVars, histVars>>
  /\ UNCHANGED <<session_id, resumeVars, otherVars>>

Next ==
  \/ \E t \in Tasks : ConnectStart(t)
  \/ \E t \in Tasks : LoopTop(t)
  \/ \E t \in Tasks : ApiVersion(t)
  \/ \E t \in Tasks : Handshake(t)
  \/ \E t \in Tasks : Features(t)
  \/ \E t \in Tasks : Register(t)
  \/ \E t \in Tasks : FlushStep(t)
  \/ \E t \in Tasks, f \in Frames : RecvFrame(t, f)
  \/ \E t \in Tasks : ListenEnd(t)
  \/ \E t \in Tasks : Disconnected(t)
  \/ ServerClose
  \/ Send
  \/ ManualClosure
  \/ CloserClosed
  \/ CloserDisconnected
  \/ Close
  \/ ClientShutdown

\* -------------------------------------------------- resume configuration
\* A connection made with any resume key and timeout, that retries without
\* bound; the node answers, closes the socket and sends frames, and
\* manual_closure is called.
ResumeTimeouts == {0, 60}

InitResume ==
  /\ Constructed
  /\ max_reconnect_attempts = Infinite
  /\ resume_key \in {"none", "key"}
  /\ resume_timeout \in ResumeTimeouts
  /\ resuming_configured = FALSE
  /\ patched = 0

NextResume ==
  \/ \E t \in Tasks : ConnectStart(t)
  \/ \E t \in Tasks : LoopTop(t)
  \/ \E t \in Tasks : ApiVersion(t)
  \/ \E t \in Tasks : Handshake(t)
  \/ \E t \in Tasks : Features(t)
  \/ \E t \in Tasks : Register(t)
  \/ \E t \in Tasks, f \in Frames : RecvFrame(t, f)
  \/ \E t \in Tasks : ResumeConfigured(t)
  \/ \E t \in Tasks : ListenEnd(t)
  \/ \E t \in Tasks : Disconnected(t)
  \/ ServerClose
  \/ ManualClosure
  \/ CloserClosed
  \/ CloserDisconnected

SpecResume == InitResume /\ [][NextResume]_vars

\* ------------------------------------------------------ reconnect probes
\* where maybe_reconnect_player is suspended
ProbeSuspended == {"sleep", "fetch", "reconnect"}

ProbeLive(i) == probe_pc[i] \in ProbeSuspended

\* (CancelProbeSkipped: the registered probe is replaced without cancel().)
\* Task.cancel() on the probe registered for a guild, if there is one.
CancelProbeSkipped(p, i) == p

CancelProbe(p, i) ==
  IF i # 0 /\ p[i] \in ProbeSuspended THEN [p EXCEPT ![i] = "cancelled"] ELSE p

\* handle_player_update, lines 441-446, and maybe_reconnect_player, lines
\* 470-475: the player looks disconnected on the node while it should play
\* (ProbeWantedNotReady: the ready event is not looked at.)
ProbeWantedNotReady(state_connected, is_playing, stale) ==
  (~state_connected) /\ is_playing /\ stale

ProbeWanted(state_connected, is_playing, stale) ==
  (~state_connected) /\ is_playing /\ ready /\ stale

\* handle_player_update for a playerUpdate frame of guild g, read by _listen:
\* when a probe is wanted the registered one is cancelled and a new task is
\* created and registered (no await in between); else the state is updated.
\* (UpdatesStateNoReturn: _update_state is reached after a probe is made.)
\* line 451: the return that follows the creation of the probe leaves
\* player._update_state(data.state) (line 452) to the other case
UpdatesStateNoReturn(probe_made) == TRUE

UpdatesState(probe_made) == ~probe_made

PlayerUpdate(g) ==
  /\ pc[connect_task] = "listen"
  /\ ws = "open"
  /\ \E has_player, state_connected \in BOOLEAN :
     \E is_playing, stale \in (IF has_player THEN BOOLEAN ELSE {FALSE}) :
       /\ last_update' = [has_player |-> has_player,
                          connected |-> state_connected, is_playing |-> is_playing,
                          stale |-> stale,
                          updated |-> has_player
                            /\ UpdatesState(ProbeWanted(state_connected, is_playing, stale))]
       /\ IF has_player /\ ProbeWanted(state_connected, is_playing, stale)
            THEN LET n == Cardinality({i \in Probes : probe_pc[i] # "none"}) + 1
                 IN /\ n <= MaxProbes
                    /\ probe_pc' = [CancelProbe(probe_pc, player_reconnect_tasks[g])
                                      EXCEPT ![n] = "sleep"]
                    /\ probe_guild' = [probe_guild EXCEPT ![n] = g]
                    /\ player_reconnect_tasks' = [player_reconnect_tasks EXCEPT ![g] = n]
            ELSE UNCHANGED <<player_reconnect_tasks, probe_pc, probe_guild>>
  /\ UNCHANGED <<last_fetch, wsVars, decVars, qryVars, evtVars, opsVars>>

\* maybe_reconnect_player, line 465: the sleep of 5 seconds is over.
ProbeSlept(i) ==
  /\ probe_pc[i] = "sleep"
  /\ probe_pc' = [probe_pc EXCEPT ![i] = "fetch"]
  /\ UNCHANGED <<player_reconnect_tasks, probe_guild, last_update, last_fetch>>
  /\ UNCHANGED <<wsVars, decVars, qryVars, evtVars, opsVars>>

\* maybe_reconnect_player, lines 466-476: fetch_session_player returned.
ProbeFetched(i) ==
  /\ probe_pc[i] = "fetch"
  /\ \E http_error \in BOOLEAN :
     \E voice_connected, is_playing, stale \in (IF http_error THEN {FALSE} ELSE BOOLEAN) :
       /\ last_fetch' = [http_error |-> http_error,
                         connected |-> voice_connected, is_playing |-> is_playing,
                         stale |-> stale]
       /\ probe_pc' = [probe_pc EXCEPT ![i] =
                         IF ~http_error /\ ProbeWanted(voice_connected, is_playing, stale)
                           THEN "reconnect" ELSE "done"]
  /\ UNCHANGED <<player_reconnect_tasks, probe_guild, last_update>>
  /\ UNCHANGED <<wsVars, decVars, qryVars, evtVars, opsVars>>

\* maybe_reconnect_player, lines 476-477: player.reconnect() returned.
ProbeReconnected(i) ==
  /\ probe_pc[i] = "reconnect"
  /\ probe_pc' = [probe_pc EXCEPT ![i] = "done"]
  /\ UNCHANGED <<player_reconnect_tasks, probe_guild, last_update, last_fetch>>
  /\ UNCHANGED <<wsVars, decVars, qryVars, evtVars, opsVars>>

\* The connection once the first connect task reads frames in _listen.
WsListening ==
  /\ pc = [t \in Tasks |-> IF t = 1 THEN "listen" ELSE "none"]
  /\ connect_task = 1
  /\ attempt = [t \in Tasks |-> IF t = 1 THEN 1 ELSE 0]
  /\ backoff_exp = [t \in Tasks |-> 0]
  /\ fcopy = [t \in Tasks |-> <<>>]
  /\ fnext = [t \in Tasks |-> 0]
  /\ ws = "open"
  /\ ready = FALSE
  /\ manual_shutdown = FALSE
  /\ connecting = FALSE
  /\ api_version = "supported"
  /\ is_shutting_down = FALSE
  /\ session_closed = FALSE
  /\ message_queue = <<>>
  /\ max_reconnect_attempts = Infinite
  /\ closer = "idle"
  /\ written = <<>>
  /\ issued = 0
  /\ accepted = {}
  /\ flushed = {}
  /\ during_flush = {}
  /\ last_delay = 0
  /\ shutdown_requested = FALSE
  /\ session_id = "none"
  /\ ResumeOff

InitProbes == WsListening /\ ProbesInit /\ DecoderIdle /\ QueryIdle /\ EventsIdle /\ OpsIdle

NextProbes ==
  \/ \E g \in Guilds : PlayerUpdate(g)
  \/ \E i \in Probes : ProbeSlept(i)
  \/ \E i \in Probes : ProbeFetched(i)
  \/ \E i \in Probes : ProbeReconnected(i)
  \/ \E t \in Tasks : RecvFrame(t, "ready")

SpecProbes == InitProbes /\ [][NextProbes]_vars

\* ------------------------------------------------------------ event frames
\* handle_message, lines 393-411, and handle_event, lines 498-586, for one
\* frame of op "event".

\* the encoded tracks a frame or a player's current track can hold
EncodedTracks == {"A", "B"}

\* the event types a node sends, and one type the client does not know
EventTypes ==
  {"TrackStartEvent", "TrackEndEvent", "TrackExceptionEvent", "TrackStuckEvent",
   "WebSocketClosedEvent", "SegmentsLoadedEvent", "SegmentSkippedEvent"}
WireTypes == EventTypes \cup {"OtherEvent"}
TrackEventTypes ==
  {"TrackStartEvent", "TrackEndEvent", "TrackExceptionEvent", "TrackStuckEvent"}

\* handle_message, lines 394-410: the payload class by data["type"]; for any
\* other type the raw dict goes on to handle_event
PayloadClass(type) ==
  CASE type = "TrackStartEvent" -> "TrackStartEventOpObject"
    [] type = "TrackEndEvent" -> "TrackEndEventOpObject"
    [] type = "TrackExceptionEvent" -> "TrackExceptionEventOpObject"
    [] type = "TrackStuckEvent" -> "TrackStuckEventOpObject"
    [] type = "WebSocketClosedEvent" -> "WebSocketClosedEventOpObject"
    [] type = "SegmentsLoadedEvent" -> "SegmentsLoadedEventObject"
    [] type = "SegmentSkippedEvent" -> "SegmentSkippedEventOpObject"
    [] OTHER -> "dict"

\* the `type` of a parsed payload is the frame's: a Literal field checked by
\* from_dict (SegmentsLoaded.type, sponsorblock.py line 24, and
\* SegmentSkipped.type, line 39)
PayloadType(type) == type

\* handle_event, lines 531-584: the patterns of the case arms, as written
EventCases ==
  {"TrackEndEvent", "TrackExceptionEvent", "TrackStartEvent", "TrackStuckEvent",
   "WebSocketClosedEvent", "SegmentsLoaded", "SegmentSkipped"}
MatchedCase(type) == IF PayloadType(type) \in EventCases THEN PayloadType(type) ELSE "__"

\* the event classes constructed by the arms of lines 544-581
DomainEvent(arm) ==
  CASE arm = "SegmentsLoaded" -> "SegmentsLoadedEvent"
    [] arm = "SegmentSkipped" -> "SegmentSkippedEvent"
    [] OTHER -> arm

NoTrack == [origin |-> "none", encoded |-> "none"]
\* player.current as the track of an event (lines 560, 566, 571): no test
CurrentTrack(current) ==
  IF current = "none" THEN NoTrack ELSE [origin |-> "current", encoded |-> current]
\* lines 539-552: the current track when its encoded string is the frame's,
\* else Track(data=data.encodedTrack, query=Query.from_base64(...))
EndTrack(current, encodedTrack) ==
  IF current # "none" /\ current = encodedTrack
    THEN [origin |-> "current", encoded |-> current]
    ELSE [origin |-> "fresh", encoded |-> encodedTrack]

NothingDone == [raised |-> FALSE, emitted |-> <<>>, timestamp_reset |-> FALSE]
Emits(events) == [raised |-> FALSE, emitted |-> events, timestamp_reset |-> FALSE]

\* handle_event, lines 518-586.  lookup: the player is found at once ("yes"),
\* after the sleep of line 522 ("late"), or not at all ("no").  A raw dict has
\* no attribute guildId (line 520).  A start event goes through
\* _process_track_event, whose track.query() (line 613) needs a track and
\* which dispatches an event of the class of the track's source (line 667)
\* before line 586 dispatches the plain one.
handle_event(type, shutting, lookup, current, encodedTrack, same_node) ==
  IF shutting THEN NothingDone
  ELSE IF PayloadClass(type) = "dict" THEN [NothingDone EXCEPT !.raised = TRUE]
  ELSE IF lookup = "no" THEN NothingDone
  ELSE CASE MatchedCase(type) = "TrackEndEvent" ->
              [raised |-> FALSE,
               emitted |-> <<[event |-> "TrackEndEvent", variant |-> "plain",
                              track |-> EndTrack(current, encodedTrack)]>>,
               timestamp_reset |-> (current # "none" /\ current = encodedTrack)]
         [] MatchedCase(type) = "TrackExceptionEvent" ->
              IF same_node
                THEN Emits(<<[event |-> "TrackExceptionEvent", variant |-> "plain",
                              track |-> CurrentTrack(current)]>>)
                ELSE NothingDone
         [] MatchedCase(type) = "TrackStartEvent" ->
              IF current = "none"
                THEN [NothingDone EXCEPT !.raised = TRUE]
                ELSE Emits(<<[event |-> "TrackStartEvent", variant |-> "source",
                              track |-> CurrentTrack(current)],
                             [event |-> "TrackStartEvent", variant |-> "plain",
                              track |-> CurrentTrack(current)]>>)
         [] MatchedCase(type) = "TrackStuckEvent" ->
              Emits(<<[event |-> "TrackStuckEvent", variant |-> "plain",
                       track |-> CurrentTrack(current)]>>)
         [] MatchedCase(type) \in {"WebSocketClosedEvent", "SegmentsLoaded", "SegmentSkipped"} ->
              Emits(<<[event |-> DomainEvent(MatchedCase(type)), variant |-> "plain",
                       track |-> NoTrack]>>)
         [] OTHER -> NothingDone

\* One event frame is handled, whatever the player of its guild holds.
HandleEvent ==
  /\ pc[connect_task] = "listen"
  /\ ws = "open"
  /\ ~manual_shutdown
  /\ \E type \in WireTypes, lookup \in {"yes", "late", "no"}, same_node \in BOOLEAN :
     \E current \in (IF lookup = "no" THEN {"none"} ELSE EncodedTracks \cup {"none"}) :
     \E encodedTrack \in (IF type \in TrackEventTypes THEN EncodedTracks ELSE {"none"}) :
       /\ event_frame' = [type |-> type, lookup |-> lookup, current |-> current,
                          encodedTrack |-> encodedTrack, same_node |-> same_node]
       /\ event_outcome' =
            handle_event(type, is_shutting_down, lookup, current, encodedTrack, same_node)
  /\ UNCHANGED <<wsVars, probeVars, decVars, qryVars, opsVars>>

InitEvents == WsListening /\ ProbesInit /\ DecoderIdle /\ QueryIdle /\ EventsIdle /\ OpsIdle

NextEvents == HandleEvent \/ ClientShutdown

SpecEvents == InitEvents /\ [][NextEvents]_vars

\* ------------------------------------------------------------ track codec
\* Text is a sequence of code points and a buffer a sequence of bytes (0..255);
\* a 64-bit or 32-bit integer is kept as its big-endian bytes.  A base64
\* string is the sequence of the indices of its characters in the base64
\* alphabet, the padding character "=" being B64Pad.
B64Pad == 64

\* None
Null == <<-1>>

\* the value of an expression, named once: The({e(x) : x \in {v}}) is e(v),
\* with v computed a single time however often e names x
The(S) == CHOOSE x \in S : TRUE

RECURSIVE Concat(_)
Concat(ss) == IF ss = <<>> THEN <<>> ELSE Head(ss) \o Concat(Tail(ss))

Take(s, n) == SubSeq(s, 1, IF n < Len(s) THEN n ELSE Len(s))

\* base64.b64encode, as DataWriter.to_base64 applies it
RECURSIVE b64encode(_)
b64encode(data) ==
  The({IF Len(b) = 0 THEN <<>>
       ELSE IF Len(b) = 1
         THEN <<b[1] \div 4, (b[1] % 4) * 16, B64Pad, B64Pad>>
       ELSE IF Len(b) = 2
         THEN <<b[1] \div 4, (b[1] % 4) * 16 + b[2] \div 16, (b[2] % 16) * 4, B64Pad>>
       ELSE <<b[1] \div 4, (b[1] % 4) * 16 + b[2] \div 16,
              (b[2] % 16) * 4 + b[3] \div 64, b[3] % 64>>
            \o b64encode(SubSeq(b, 4, Len(b)))
       : b \in {data}})

\* base64.b64decode of a string without foreign characters: a string whose
\* data characters do not fill whole quads, or whose padding is wrong, raises
\* binascii.Error
B64Valid(t) ==
  /\ Len(t) % 4 = 0
  /\ \A i \in 1..Len(t) :
       t[i] = B64Pad => /\ i >= Len(t) - 1
                        /\ i > 2
                        /\ \A j \in i..Len(t) : t[j] = B64Pad

RECURSIVE b64decode(_)
b64decode(text) ==
  The({IF Len(t) = 0 THEN <<>>
       ELSE LET b1 == t[1] * 4 + t[2] \div 16
                b2 == (t[2] % 16) * 16 + t[3] \div 4
                b3 == (t[3] % 4) * 64 + t[4]
            IN IF t[3] = B64Pad THEN <<b1>>
               ELSE IF t[4] = B64Pad THEN <<b1, b2>>
               ELSE <<b1, b2, b3>> \o b64decode(SubSeq(t, 5, Len(t)))
       : t \in {text}})

\* DataWriter: each write appends to the buffer
write_boolean(boolean) == <<IF boolean THEN 1 ELSE 0>>
write_unsigned_short(short) == <<short \div 256, short % 256>>
write_long(n) == <<0, 0, 0, 0, 0, 0, n \div 256, n % 256>>
write_utf(utf_string) == write_unsigned_short(Len(utf_string)) \o utf_string
write_nullable_utf(utf_string) ==
  IF utf_string = Null THEN write_boolean(FALSE)
  ELSE write_boolean(TRUE) \o write_utf(utf_string)

\* DataWriter.finish: the 4-byte header is the body's length with bit 30 set
finish(body) ==
  <<64, 0, Len(body) \div 256, Len(body) % 256>> \o body

\* DataReader over a buffer: `pos' bytes are consumed; `err' is the exception
\* a read raised ("none": no exception).  A read on a reader that has raised
\* is never made: it leaves the reader as it is.
DataReader(buf) == [buf |-> buf, pos |-> 0, err |-> "none"]

Raise(r, exc) == [r |-> [r EXCEPT !.err = exc], v |-> Null]

\* DataReader._read: BytesIO.read returns fewer bytes at the end of the buffer
_read(r, count) ==
  LET last == IF r.pos + count < Len(r.buf) THEN r.pos + count ELSE Len(r.buf)
  IN [r |-> [r EXCEPT !.pos = last], v |-> SubSeq(r.buf, r.pos + 1, last)]

\* struct.unpack of count bytes: struct.error on a short read
Unpack(r, count) ==
  IF r.err # "none" THEN [r |-> r, v |-> Null]
  ELSE The({IF Len(d.v) < count THEN Raise(d.r, "struct.error") ELSE d
            : d \in {_read(r, count)}})

\* typing.cast converts nothing: the value is the byte
read_boolean(r) ==
  The({IF d.r.err # "none" THEN d ELSE [r |-> d.r, v |-> d.v[1]] : d \in {Unpack(r, 1)}})

\* (read_unsigned_short_le: the length unpacked little-endian, "<H".)
read_unsigned_short_le(r) ==
  The({IF d.r.err # "none" THEN d ELSE [r |-> d.r, v |-> d.v[2] * 256 + d.v[1]]
       : d \in {Unpack(r, 2)}})

read_unsigned_short(r) ==
  The({IF d.r.err # "none" THEN d ELSE [r |-> d.r, v |-> d.v[1] * 256 + d.v[2]]
       : d \in {Unpack(r, 2)}})

read_int(r) == Unpack(r, 4)

read_long(r) == Unpack(r, 8)

\* bytes.decode(): bytes below 128 are the code points themselves; a byte from
\* 128 up that starts no complete sequence raises UnicodeDecodeError
read_utf(r) ==
  The({IF n.r.err # "none" THEN n
       ELSE The({IF \E i \in 1..Len(d.v) : d.v[i] >= 128
                   THEN Raise(d.r, "UnicodeDecodeError") ELSE d
                 : d \in {_read(n.r, n.v)}})
       : n \in {read_unsigned_short(r)}})

\* utfm_codec.read_utfm(text_length, utf_string): modified UTF-8; one byte in
\* 1..127 is one code point; it indexes utf_string up to text_length
read_utfm_codec(text_length, utf_string) ==
  IF Len(utf_string) < text_length \/ \E i \in 1..Len(utf_string) : utf_string[i] >= 128
    THEN Null ELSE utf_string

read_utfm(r) ==
  The({IF n.r.err # "none" THEN n
       ELSE The({IF read_utfm_codec(n.v, d.v) = Null THEN Raise(d.r, "IndexError")
                 ELSE [r |-> d.r, v |-> read_utfm_codec(n.v, d.v)]
                 : d \in {_read(n.r, n.v)}})
       : n \in {read_unsigned_short(r)}})

read_nullable_utf(r) ==
  The({IF f.r.err # "none" THEN f
       ELSE IF f.v # 0 THEN read_utf(f.r) ELSE [r |-> f.r, v |-> Null]
       : f \in {read_boolean(r)}})

read_nullable_utfm(r) ==
  The({IF f.r.err # "none" THEN f
       ELSE IF f.v # 0 THEN read_utfm(f.r) ELSE [r |-> f.r, v |-> Null]
       : f \in {read_boolean(r)}})

\* the source names decode_track matches on, and one it does not, as text
Txt_youtube == <<121, 111, 117, 116, 117, 98, 101>>
Txt_deezer == <<100, 101, 101, 122, 101, 114>>
Txt_spotify == <<115, 112, 111, 116, 105, 102, 121>>
Txt_applemusic == <<97, 112, 112, 108, 101, 109, 117, 115, 105, 99>>
Txt_yandexmusic == <<121, 97, 110, 100, 101, 120, 109, 117, 115, 105, 99>>
Txt_local == <<108, 111, 99, 97, 108>>
Txt_http == <<104, 116, 116, 112>>
Txt_soundcloud == <<115, 111, 117, 110, 100, 99, 108, 111, 117, 100>>

\* (YoutubeThumbnailHq: another file of the same image server.)
YoutubeThumbnailHq(identifier) ==
  Concat(<<<<104, 116, 116, 112, 115, 58, 47, 47, 105, 109, 103, 46, 121, 111, 117, 116, 117, 98, 101, 46, 99, 111, 109, 47, 118, 105, 47>>,
           identifier,
           <<47, 104, 113, 100, 101, 102, 97, 117, 108, 116, 46, 106, 112, 103>>>>)

\* f"https://img.youtube.com/vi/{identifier}/mqdefault.jpg"
YoutubeThumbnail(identifier) ==
  Concat(<<<<104, 116, 116, 112, 115, 58, 47, 47, 105, 109, 103, 46, 121, 111, 117, 116, 117, 98, 101, 46, 99, 111, 109, 47, 118, 105, 47>>,
           identifier,
           <<47, 109, 113, 100, 101, 102, 97, 117, 108, 116, 46, 106, 112, 103>>>>)

\* decode_track, lines 25-36: flags and version, then title ... source.  The
\* flags are bits 30-31 of the header: the two top bits of its first byte.
ReadVersion(r0) ==
  The({IF i.r.err = "none" /\ (i.v[1] \div 64) % 2 # 0 THEN Unpack(i.r, 1) ELSE i
       : i \in {read_int(r0)}})

\* `name = reader.read_...()`: the value is kept under the name, the reader
\* moves on
Assign(c0, name, method) ==
  The({The({[c EXCEPT !.r = d.r, ![name] = d.v]
            : d \in {CASE method = "read_utfm" -> read_utfm(c.r)
                        [] method = "read_long" -> read_long(c.r)
                        [] method = "read_utf" -> read_utf(c.r)
                        [] method = "read_boolean" -> read_boolean(c.r)
                        [] method = "read_nullable_utf" -> read_nullable_utf(c.r)}})
       : c \in {c0}})

ReadCommon(r0) ==
  LET version == [r |-> ReadVersion(r0).r, title |-> Null, author |-> Null,
                  length |-> Null, identifier |-> Null, is_stream |-> Null,
                  uri |-> Null, source |-> Null]
      title == Assign(version, "title", "read_utfm")
      author == Assign(title, "author", "read_utfm")
      length == Assign(author, "length", "read_long")
      identifier == Assign(length, "identifier", "read_utf")
      is_stream == Assign(identifier, "is_stream", "read_boolean")
      uri == Assign(is_stream, "uri", "read_nullable_utf")
      source == Assign(uri, "source", "read_utf")
  IN source

\* decode_track, lines 41-51: the match on the source name; a read that raises
\* leaves the fields assigned before it
ReadSourceSpecific(source, identifier, r) ==
  IF source = Txt_youtube
    THEN [r |-> r, thumbnail |-> YoutubeThumbnail(identifier), isrc |-> Null, probe |-> Null]
  ELSE IF source \in {Txt_deezer, Txt_spotify, Txt_applemusic}
    THEN The({The({[r |-> thumbnail.r, thumbnail |-> thumbnail.v, isrc |-> isrc.v,
                    probe |-> Null]
                   : thumbnail \in {read_nullable_utfm(isrc.r)}})
              : isrc \in {read_nullable_utfm(r)}})
  ELSE IF source = Txt_yandexmusic
    THEN The({[r |-> thumbnail.r, thumbnail |-> thumbnail.v, isrc |-> Null, probe |-> Null]
              : thumbnail \in {read_nullable_utfm(r)}})
  ELSE IF source \in {Txt_local, Txt_http}
    THEN The({[r |-> probe.r, thumbnail |-> Null, isrc |-> Null, probe |-> probe.v]
              : probe \in {read_utfm(r)}})
  ELSE [r |-> r, thumbnail |-> Null, isrc |-> Null, probe |-> Null]

\* what decode_track does when an exception leaves it
Raised(exc) == [raised |-> exc, encoded |-> Null, info |-> Null]

\* (ExceptClauseReraises: the handler lets the exception through.)
\* decode_track, lines 55-57: `except Exception` logs what the reads of the
\* try block raised, and decode_track goes on
ExceptClauseReraises(exc) == exc

ExceptClause(exc) == "none"

\* decode_track: DataReader(track) and the reads of lines 27-36 are outside the
\* try; the source-specific reads and the read of the position (line 54) are
\* inside; the dict of lines 59-77
decode_track(track) ==
  IF ~B64Valid(track) THEN Raised("binascii.Error")
  ELSE The({
    The({
      The({
        IF c.r.err # "none" THEN Raised(c.r.err)
        ELSE IF ExceptClause(position.r.err) # "none" THEN Raised(position.r.err)
        ELSE [raised |-> "none",
              encoded |-> track,
              info |-> [title |-> c.title, author |-> c.author, length |-> c.length,
                        identifier |-> c.identifier, isStream |-> c.is_stream,
                        uri |-> c.uri, isSeekable |-> (c.is_stream = 0),
                        sourceName |-> c.source, position |-> 0,
                        thumbnail |-> x.thumbnail, isrc |-> x.isrc,
                        probeInfo |-> x.probe]]
        : position \in {read_long(x.r)}})
      : x \in {ReadSourceSpecific(c.source, c.identifier, c.r)}})
    : c \in {ReadCommon(DataReader(b64decode(track)))}})

\* ---- the tracks a node sends, and what reaches the decoder
MaxDecodes == 2

Txt_T == <<84>>
Txt_A == <<65>>
Txt_x == <<120>>
Txt_abc123 == <<97, 98, 99, 49, 50, 51>>

\* the fields of a track, as the layout of the format names them
TrackFields ==
  [has_version : BOOLEAN,
   identifier : {Txt_x, Txt_abc123},
   is_stream : BOOLEAN,
   uri : {Null, Txt_x},
   source : {Txt_youtube, Txt_deezer, Txt_spotify, Txt_applemusic, Txt_yandexmusic,
             Txt_local, Txt_http, Txt_soundcloud},
   isrc : {Null, Txt_A},
   thumbnail : {Null, Txt_T},
   probe : {Null, Txt_A},
   probe_flagged : BOOLEAN]

\* the fields a source does not write are left out of the choice
Canonical(f) ==
  /\ f.source \in {Txt_deezer, Txt_spotify, Txt_applemusic}
       \/ f.isrc = Null
  /\ f.source \in {Txt_deezer, Txt_spotify, Txt_applemusic, Txt_yandexmusic}
       \/ f.thumbnail = Null
  /\ IF f.source \in {Txt_local, Txt_http}
       THEN f.probe_flagged \/ f.probe # Null
       ELSE f.probe = Null /\ ~f.probe_flagged

\* the buffer up to the length prefix of the source name, written with the
\* DataWriter (text below 128 is written alike in UTF-8 and modified UTF-8)
WriteCommonPrefix(f) ==
  Concat(<<IF f.has_version THEN <<2>> ELSE <<>>,
           write_utf(Txt_T), write_utf(Txt_A), write_long(1000),
           write_utf(f.identifier), write_boolean(f.is_stream),
           write_nullable_utf(f.uri), write_unsigned_short(Len(f.source))>>)

WriteSourceSpecific(f) ==
  IF f.source \in {Txt_deezer, Txt_spotify, Txt_applemusic}
    THEN write_nullable_utf(f.isrc) \o write_nullable_utf(f.thumbnail)
  ELSE IF f.source = Txt_yandexmusic THEN write_nullable_utf(f.thumbnail)
  ELSE IF f.source \in {Txt_local, Txt_http}
    THEN IF f.probe_flagged THEN write_nullable_utf(f.probe) ELSE write_utf(f.probe)
  ELSE <<>>

WriteBody(f) ==
  Concat(<<WriteCommonPrefix(f), f.source, WriteSourceSpecific(f), write_long(0)>>)

\* the header: DataWriter.finish sets the version flag; a track without a
\* version byte carries the length alone
WriteTrack(f) ==
  IF f.has_version THEN finish(WriteBody(f))
  ELSE <<0, 0, Len(WriteBody(f)) \div 256, Len(WriteBody(f)) % 256>> \o WriteBody(f)

\* A track reaches the decoder as the node wrote it, or cut short: the buffer
\* cut after `kept' bytes, or its base64 text cut after `kept' characters.
InitDecoder ==
  /\ WsListening
  /\ ProbesInit
  /\ QueryIdle
  /\ EventsIdle /\ OpsIdle
  /\ decoded = <<>>
  /\ \E f \in TrackFields :
       /\ Canonical(f)
       /\ \E buf \in {WriteTrack(f)} : \E text \in {b64encode(buf)} :
             \/ /\ wire = [kind |-> "valid", fields |-> f, kept |-> Len(buf)]
                /\ encoded_track = text
             \/ \E n \in 0..(Len(buf) - 1) :
                  /\ wire = [kind |-> "cut_bytes", fields |-> f, kept |-> n]
                  /\ encoded_track = b64encode(Take(buf, n))
             \/ \E n \in 0..(Len(text) - 1) :
                  /\ wire = [kind |-> "cut_text", fields |-> f, kept |-> n]
                  /\ encoded_track = Take(text, n)

\* decode_track(track) is called (async_decoder calls it in a worker thread)
DecodeTrack ==
  /\ Len(decoded) < MaxDecodes
  /\ decoded' = Append(decoded, decode_track(encoded_track))
  /\ UNCHANGED <<encoded_track, wire, wsVars, probeVars, qryVars, evtVars, opsVars>>

NextDecoder == DecodeTrack

SpecDecoder == InitDecoder /\ [][NextDecoder]_vars

\* --------------------------------------------------------- query classifier
\* A string is a sequence of tokens: the schemes, hosts, directives, path
\* separators and words below.  No pattern or substring test of query.py
\* matches inside a token or across two tokens otherwise than written here.
\* Letter case: the patterns are compiled with re.IGNORECASE; the tokens are
\* lower-case.
Schemes == {"http://", "https://"}
SearchPrefixes == {"ytm", "yt", "sp", "sc", "am"}
RecursionDirectives == {"all:", "nested:", "recursive:", "tree:"}
SpotifyTypes == {"track", "album", "playlist", "artist"}
AppleTypes == {"album", "playlist", "artist"}
\* words of [a-zA-Z0-9-_]+ that are none of the tokens above
Words == {"abc123", "music", "rock", "lofi", "beats"}

StartsWith(q, toks) == Len(q) >= Len(toks) /\ SubSeq(q, 1, Len(toks)) = toks

Drop(q, n) == SubSeq(q, n + 1, Len(q))

\* `needle in query`
Contains(q, needle) ==
  \E i \in 0..(Len(q) - Len(needle)) : SubSeq(q, i + 1, i + Len(needle)) = needle

\* an optional group at the head of a pattern
Opt(q, toks) == IF q # <<>> /\ Head(q) \in toks THEN Tail(q) ELSE q

\* str.strip()
RECURSIVE lstrip(_)
lstrip(q) == IF q # <<>> /\ Head(q) = " " THEN lstrip(Tail(q)) ELSE q

RECURSIVE rstrip(_)
rstrip(q) ==
  IF q # <<>> /\ q[Len(q)] = " " THEN rstrip(SubSeq(q, 1, Len(q) - 1)) ELSE q

strip(q) == rstrip(lstrip(q))

\* (?:http://|https://|)(?:www\.|)
AfterSchemeWww(q) == Opt(Opt(q, Schemes), {"www."})

\* YOUTUBE_REGEX.match: (scheme)(www.)(music.)?youtu(be.com|.be)
YOUTUBE_REGEX(q) ==
  LET h == Opt(AfterSchemeWww(q), {"music."})
  IN h # <<>> /\ Head(h) \in {"youtube.com", "youtu.be"}

\* match.group("music")
YoutubeMusicGroup(q) ==
  LET h == AfterSchemeWww(q) IN h # <<>> /\ Head(h) = "music."

\* SPOTIFY_REGEX.match:
\* (scheme)?(www.)?open.spotify.com/(user/<word>/)?<type>/<identifier>
SPOTIFY_REGEX(q) ==
  LET h == AfterSchemeWww(q)
      u == IF StartsWith(h, <<"open.spotify.com", "/", "user", "/">>)
                /\ Len(h) >= 6 /\ h[5] \in Words /\ h[6] = "/"
             THEN Drop(h, 4) ELSE h
      t == IF u = h THEN Drop(h, 2) ELSE Drop(u, 2)
  IN /\ StartsWith(h, <<"open.spotify.com", "/">>)
     /\ Len(t) >= 3
     /\ t[1] \in SpotifyTypes
     /\ t[2] = "/"
     /\ t[3] \in Words

\* APPLE_MUSIC_REGEX.match:
\* (scheme)?(www.)?music.apple.com/(cc/)?<type>(/<word>)?/<identifier>
APPLE_MUSIC_REGEX(q) ==
  LET h == AfterSchemeWww(q)
      c == IF StartsWith(h, <<"music.apple.com", "/", "us", "/">>)
             THEN Drop(h, 4) ELSE Drop(h, 2)
  IN /\ StartsWith(h, <<"music.apple.com", "/">>)
     /\ Len(c) >= 3
     /\ c[1] \in AppleTypes
     /\ c[2] = "/"
     /\ c[3] \in Words

\* the first five alternatives of SOUND_CLOUD_REGEX: a soundcloud.app.goo.gl
\* link, or soundcloud.com/<user>/<track> and its variants
SoundCloudUrl(q) ==
  LET h == Opt(AfterSchemeWww(q), {"m."})
  IN \/ /\ StartsWith(Opt(q, Schemes), <<"soundcloud.app.goo.gl", "/">>)
        /\ Len(Opt(q, Schemes)) = 3
        /\ Opt(q, Schemes)[3] \in Words
     \/ /\ StartsWith(h, <<"soundcloud.com", "/">>)
        /\ Len(h) \in {5, 7}
        /\ \A i \in 3..Len(h) : IF i % 2 = 1 THEN h[i] \in Words \cup {"sets", "likes"}
                                               ELSE h[i] = "/"

\* the pattern ends with "|": its last alternative is empty, and an empty
\* alternative matches at the start of every string
SoundCloudEmptyAlternative(q) == TRUE

\* SOUND_CLOUD_REGEX.match
SOUND_CLOUD_REGEX(q) == SoundCloudUrl(q) \/ SoundCloudEmptyAlternative(q)

\* TWITCH_REGEX.match: ^https://(www.|go.)?twitch.tv/<word>$
TWITCH_REGEX(q) ==
  /\ StartsWith(q, <<"https://">>)
  /\ LET h == Opt(Tail(q), {"www.", "go."})
     IN h \in {<<"twitch.tv", "/", w>> : w \in Words}

\* GCTSS_REGEX.match and SPEAK_REGEX.match: the directive heads the string
GCTSS_REGEX(q) == StartsWith(q, <<"tts://">>)

SPEAK_REGEX(q) == StartsWith(q, <<"speak:">>)

\* the patterns of the providers that follow in __process_urls, by the host
\* (or the id) each of them asks for after an optional scheme and "www."
HostPatterns ==
  <<[host |-> "clyp.it", source |-> "Clyp.it"],
    [host |-> "getyarn.io", source |-> "GetYarn"],
    [host |-> "mixcloud.com", source |-> "Mixcloud"],
    [host |-> "OCR1", source |-> "OverClocked ReMix"],
    [host |-> "pornhub.com", source |-> "Pornhub"],
    [host |-> "reddit.com", source |-> "Reddit"],
    [host |-> "soundgasm.net", source |-> "SoundGasm"],
    [host |-> "tiktok.com", source |-> "TikTok"],
    [host |-> "bandcamp.com", source |-> "Bandcamp"],
    [host |-> "nicovideo.jp", source |-> "Niconico"],
    [host |-> "vimeo.com", source |-> "Vimeo"]>>

HostMatch(q, host) ==
  LET h == AfterSchemeWww(q) IN h # <<>> /\ Head(h) = host

\* HTTP_REGEX.match: ^http(s)?://
HTTP_REGEX(q) == q # <<>> /\ Head(q) \in Schemes

\* SEARCH_REGEX.match: ^(ytm|yt|sp|sc|am)search:
SEARCH_REGEX(q) ==
  Len(q) >= 2 /\ q[1] \in SearchPrefixes /\ q[2] = "search:"

\* LOCAL_TRACK_NESTED.match: ^(all|nested|recursive|tree):
LOCAL_TRACK_NESTED(q) == q # <<>> /\ Head(q) \in RecursionDirectives

\* int() of the digit strings of the vocabulary
Numbers == {"0", "1", "2", "90"}
int(d) == CASE d = "0" -> 0 [] d = "1" -> 1 [] d = "2" -> 2 [] d = "90" -> 90

\* YOUTUBE_TIMESTAMP.search: [&|?]t=(\d+), the first occurrence
TimestampAt(q, i) ==
  i + 2 <= Len(q) /\ q[i] \in {"&", "|", "?"} /\ q[i + 1] = "t=" /\ q[i + 2] \in Numbers

\* YOUTUBE_INDEX.search: &index=(\d+), the first occurrence
IndexAt(q, i) ==
  i + 2 <= Len(q) /\ q[i] = "&" /\ q[i + 1] = "index=" /\ q[i + 2] \in Numbers

First(S) == CHOOSE i \in S : \A j \in S : i <= j

\* (process_youtube_list_first: the test for "list=" comes before the test
\* for "playlist?".)
process_youtube_list_first(query, music) ==
  LET ts == {i \in 1..Len(query) : TimestampAt(query, i)}
      ix == {i \in 1..Len(query) : IndexAt(query, i)}
      start_time == IF ts # {} THEN int(query[First(ts) + 2]) ELSE 0
      has_index == Contains(query, <<"&", "index=">>)
      index == IF has_index /\ ix # {} THEN int(query[First(ix) + 2]) - 1 ELSE 0
      source == IF music THEN "YouTube Music" ELSE "YouTube"
  IN IF Contains(query, <<"&", "list=">>) /\ Contains(query, <<"watch", "?">>)
       THEN Query(query, source, FALSE, start_time, 0, "playlist", FALSE)
     ELSE IF Contains(query, <<"list=">>)
       THEN Query(query, source, FALSE, start_time, 0,
                  IF has_index THEN "single" ELSE "playlist", FALSE)
     ELSE IF Contains(query, <<"playlist", "?">>)
       THEN Query(query, source, FALSE, start_time, index, "playlist", FALSE)
     ELSE Query(query, source, FALSE, start_time, index, "single", FALSE)

process_youtube(query, music) ==
  LET ts == {i \in 1..Len(query) : TimestampAt(query, i)}
      ix == {i \in 1..Len(query) : IndexAt(query, i)}
      start_time == IF ts # {} THEN int(query[First(ts) + 2]) ELSE 0
      has_index == Contains(query, <<"&", "index=">>)
      index == IF has_index /\ ix # {} THEN int(query[First(ix) + 2]) - 1 ELSE 0
      source == IF music THEN "YouTube Music" ELSE "YouTube"
  IN IF Contains(query, <<"&", "list=">>) /\ Contains(query, <<"watch", "?">>)
       THEN Query(query, source, FALSE, start_time, 0, "playlist", FALSE)
     ELSE IF Contains(query, <<"playlist", "?">>)
       THEN Query(query, source, FALSE, start_time, index, "playlist", FALSE)
     ELSE IF Contains(query, <<"list=">>)
       THEN Query(query, source, FALSE, start_time, 0,
                  IF has_index THEN "single" ELSE "playlist", FALSE)
     ELSE Query(query, source, FALSE, start_time, index, "single", FALSE)

\* (process_spotify_album_first: the two tests in the other order.)
process_spotify_album_first(query) ==
  Query(query, "Spotify", FALSE, 0, 0,
        IF Contains(query, <<"/", "album", "/">>) THEN "album"
        ELSE IF Contains(query, <<"/", "playlist", "/">>) THEN "playlist"
        ELSE "single", FALSE)

process_spotify(query) ==
  Query(query, "Spotify", FALSE, 0, 0,
        IF Contains(query, <<"/", "playlist", "/">>) THEN "playlist"
        ELSE IF Contains(query, <<"/", "album", "/">>) THEN "album"
        ELSE "single", FALSE)

process_soundcloud(query) ==
  Query(query, "SoundCloud", FALSE, 0, 0,
        IF Contains(query, <<"/", "sets", "/">>)
          THEN IF Contains(query, <<"?", "in=">>) THEN "single" ELSE "playlist"
          ELSE "single", FALSE)

process_bandcamp(query) ==
  Query(query, "Bandcamp", FALSE, 0, 0,
        IF Contains(query, <<"/", "album", "/">>) THEN "album" ELSE "single", FALSE)

\* the providers of HostPatterns, tried in order from the k-th on; then
\* HTTP_REGEX; then None
RECURSIVE ProcessHosts(_, _)
ProcessHosts(query, k) ==
  IF k > Len(HostPatterns)
    THEN IF HTTP_REGEX(query) THEN Query(query, "HTTP", FALSE, 0, 0, "single", FALSE)
         ELSE NoQuery
  ELSE IF HostMatch(query, HostPatterns[k].host)
    THEN IF HostPatterns[k].source = "Bandcamp" THEN process_bandcamp(query)
         ELSE Query(query, HostPatterns[k].source, FALSE, 0, 0, "single", FALSE)
  ELSE ProcessHosts(query, k + 1)

\* Query.__process_urls: the first pattern that matches decides
process_urls(query) ==
  IF YOUTUBE_REGEX(query) THEN process_youtube(query, YoutubeMusicGroup(query))
  ELSE IF SPOTIFY_REGEX(query) THEN process_spotify(query)
  ELSE IF APPLE_MUSIC_REGEX(query)
    THEN Query(query, "Apple Music", FALSE, 0, 0, "single", FALSE)
  ELSE IF SOUND_CLOUD_REGEX(query) THEN process_soundcloud(query)
  ELSE IF TWITCH_REGEX(query) THEN Query(query, "Twitch", FALSE, 0, 0, "single", FALSE)
  ELSE IF GCTSS_REGEX(query)
    THEN Query(strip(Tail(query)), "Google TTS", TRUE, 0, 0, "single", FALSE)
  ELSE IF SPEAK_REGEX(query)
    THEN Query(strip(Tail(query)), "speak", TRUE, 0, 0, "single", FALSE)
  ELSE ProcessHosts(query, 1)

\* Query.__process_search: the text after the directive, stripped; the source
\* by the prefix
SearchSource(prefix) ==
  CASE prefix = "ytm" -> "YouTube Music"
    [] prefix = "yt" -> "YouTube Music"
    [] prefix = "sp" -> "Spotify"
    [] prefix = "sc" -> "SoundCloud"
    [] prefix = "am" -> "Apple Music"
    [] OTHER -> "YouTube Music"

process_search(query) ==
  IF SEARCH_REGEX(query)
    THEN Query(strip(Drop(query, 2)), SearchSource(query[1]), TRUE, 0, 0, "single", FALSE)
    ELSE NoQuery

\* ---- local files.  A path is a string of "/" and names; the file system
\* says of each path whether it is missing, a file or a directory.
RootFolder == <<"/", "root">>
WorkingDirectory == <<"/", "cwd">>

IsAbsolute(path) == path # <<>> /\ Head(path) = "/"

\* _ROOT_FOLDER.joinpath(*parts) without the anchor of an absolute path
UnderRoot(path) ==
  RootFolder \o <<"/">> \o (IF IsAbsolute(path) THEN Tail(path) ELSE path)

\* path.resolve()
Resolve(path) ==
  IF IsAbsolute(path) THEN path
  ELSE IF path = <<>> THEN WorkingDirectory
  ELSE WorkingDirectory \o <<"/">> \o path

\* path.exists(), path.is_dir(): the empty path is the working directory
PathKind(files, path) ==
  IF path = <<>> THEN "dir"
  ELSE IF path \in DOMAIN files THEN files[path] ELSE "missing"

\* Query.__process_local: the directive is stripped; the path as given, else
\* under the root folder; ValueError when neither exists or when LocalFile
\* cannot be set up; album for a directory
process_local(query, files, local_ok) ==
  LET recursively == LOCAL_TRACK_NESTED(query)
      text == IF recursively THEN strip(Tail(query)) ELSE query
      path == IF PathKind(files, text) # "missing" THEN text ELSE UnderRoot(text)
  IN IF PathKind(files, path) = "missing" \/ ~local_ok THEN ValueError
     ELSE Query(Resolve(path), "Local Files", FALSE, 0, 0,
                IF PathKind(files, path) = "dir" THEN "album" ELSE "single",
                recursively)

\* (from_string_reraises: the ValueError of __process_local reaches the caller.)
from_string_reraises(query, is_path, files, local_ok) ==
  IF is_path THEN process_local(query, files, local_ok)
  ELSE IF process_urls(query) # NoQuery THEN process_urls(query)
  ELSE IF process_search(query) # NoQuery THEN process_search(query)
  ELSE process_local(query, files, local_ok)

\* Query.from_string for a pathlib.Path (is_path) or a string
from_string(query, is_path, files, local_ok) ==
  LET fallback == Query(query, "YouTube Music", TRUE, 0, 0, "single", FALSE)
      local == process_local(query, files, local_ok)
  IN IF is_path THEN (IF local = ValueError THEN fallback ELSE local)
     ELSE IF process_urls(query) # NoQuery THEN process_urls(query)
     ELSE IF process_search(query) # NoQuery THEN process_search(query)
     ELSE IF local = ValueError THEN fallback ELSE local

\* Query.query_identifier (the texts here are shorter than 200 characters:
\* the slice [:200] of a spoken text keeps it whole)
query_identifier(q) ==
  IF q.search
    THEN IF q.source = "YouTube Music" THEN <<"ytm", "search:">> \o q.query
         ELSE IF q.source = "YouTube" THEN <<"yt", "search:">> \o q.query
         ELSE IF q.source = "Spotify" THEN <<"sp", "search:">> \o q.query
         ELSE IF q.source = "Apple Music" THEN <<"am", "search:">> \o q.query
         ELSE IF q.source = "SoundCloud" THEN <<"sc", "search:">> \o q.query
         ELSE IF q.source = "speak" THEN <<"speak:">> \o q.query
         ELSE IF q.source = "Google TTS" THEN <<"tts://">> \o q.query
         ELSE <<"yt", "search:">> \o q.query
  ELSE q.query

\* ---- what is handed to the classifier
Txt_lofi_beats == <<"lofi", " ", "beats">>
Path_music_rock == <<"/", "music", "/", "rock">>

SearchTexts ==
  {<<p, "search:">> \o t : p \in SearchPrefixes \cup {"dz"},
                           t \in {Txt_lofi_beats, <<" ", "abc123">>}}

SpotifyUrls ==
  {s \o <<"open.spotify.com", "/", t, "/", "abc123">> :
     s \in {<<>>, <<"https://">>, <<"http://", "www.">>}, t \in SpotifyTypes}
  \cup {<<"https://", "open.spotify.com", "/", "user", "/", "rock", "/", "playlist", "/", "abc123">>,
         <<"https://", "open.spotify.com", "/", "album", "/", "abc123", "/", "playlist", "/", "rock">>}

LocalTexts ==
  {d \o p : d \in {<<>>} \cup {<<x>> : x \in RecursionDirectives}
                        \cup {<<"nested:", " ">>},
            p \in {Path_music_rock, <<"music", "/", "rock">>}}

YoutubeUrls ==
  {<<"https://", "www.", "youtube.com", "/", "watch", "?", "v=", "abc123">>,
   <<"https://", "music.", "youtube.com", "/", "watch", "?", "v=", "abc123", "&", "t=", "90">>,
   <<"https://", "youtube.com", "/", "watch", "?", "v=", "abc123", "&", "list=", "rock", "&", "index=", "2">>,
   <<"https://", "youtube.com", "/", "playlist", "?", "list=", "rock">>,
   <<"youtu.be", "/", "abc123", "?", "t=", "1">>,
   <<"youtu.be", "/", "abc123", "?", "list=", "rock">>,
   <<"youtu.be", "/", "abc123", "?", "list=", "rock", "&", "index=", "2">>,
   <<"https://", "youtube.com", "/", "playlist", "?", "list=", "rock", "&", "index=", "2">>,
   <<"https://", "youtube.com", "/", "playlist", "?", "list=", "rock", "&", "index=", "0">>,
   <<"https://", "music.", "youtube.com", "/", "watch", "?", "v=", "abc123", "&", "index=", "0">>}

OtherTexts ==
  {Txt_lofi_beats, <<>>, <<"abc123">>,
   <<"https://", "music.apple.com", "/", "us", "/", "album", "/", "rock", "/", "abc123">>,
   <<"https://", "soundcloud.com", "/", "rock", "/", "sets", "/", "abc123">>,
   <<"https://", "twitch.tv", "/", "rock">>,
   <<"tts://", "lofi">>, <<"speak:", " ", "lofi">>,
   <<"https://", "vimeo.com", "/", "1">>, <<"https://", "bandcamp.com", "/", "album", "/", "rock">>,
   <<"OCR1">>, <<"https://", "example.com", "/", "rock">>}

QueryTexts == SearchTexts \cup SpotifyUrls \cup LocalTexts \cup YoutubeUrls \cup OtherTexts

\* the paths the file system may hold
LocalPaths == {Path_music_rock, <<"music", "/", "rock">>, UnderRoot(Path_music_rock)}

InitQuery ==
  /\ WsListening
  /\ ProbesInit
  /\ EventsIdle /\ OpsIdle
  /\ DecoderIdle
  /\ query_input \in [text : QueryTexts, is_path : BOOLEAN]
  /\ query_input.is_path => query_input.text \in LocalTexts \cup {Txt_lofi_beats}
  /\ file_system \in [LocalPaths -> {"missing", "file", "dir"}]
  /\ localfile_ok \in BOOLEAN
  /\ classified = NoQuery
  /\ reclassified = NoQuery

\* Query.from_string(query) is called
Classify ==
  /\ classified = NoQuery
  /\ classified' = from_string(query_input.text, query_input.is_path, file_system, localfile_ok)
  /\ UNCHANGED <<query_input, file_system, localfile_ok, reclassified, wsVars, probeVars, decVars, evtVars, opsVars>>

\* Query.from_string(str(q)) is called for the Query q returned before
Reclassify ==
  /\ classified # NoQuery
  /\ reclassified = NoQuery
  /\ reclassified' = from_string(query_identifier(classified), FALSE, file_system, localfile_ok)
  /\ UNCHANGED <<query_input, file_system, localfile_ok, classified, wsVars, probeVars, decVars, evtVars, opsVars>>

NextQuery == Classify \/ Reclassify

SpecQuery == InitQuery /\ [][NextQuery]_vars

\* ------------------------------------------------- operations on a Query
MaxIndex == 2

\* values handed to the setter of Query.source, and str.lower() of them
SourceValues ==
  {"ytm", "yt", "YT", "sp", "Sc", "am", "local", "speak", "tts://", "dz", "YouTube"}
lower(value) ==
  CASE value = "YT" -> "yt"
    [] value = "Sc" -> "sc"
    [] value = "YouTube" -> "youtube"
    [] OTHER -> value

\* the setter of Query.source, lines 493-495: the allow-list
AllowedSources == {"ytm", "yt", "sp", "sc", "am", "local", "speak", "tts://"}

\* lines 496-511: the tag of an allowed value
SourceTag(source) ==
  CASE source = "ytm" -> "YouTube Music"
    [] source = "yt" -> "YouTube"
    [] source = "sp" -> "Spotify"
    [] source = "sc" -> "SoundCloud"
    [] source = "am" -> "Apple Music"
    [] source = "local" -> "Local Files"
    [] source = "speak" -> "speak"
    [] source = "tts://" -> "Google TTS"

\* (set_source_unchecked: the test of is_search is left out.)
set_source_unchecked(q, value) ==
  IF lower(value) \notin AllowedSources THEN [raised |-> TRUE, q |-> q]
  ELSE [raised |-> FALSE, q |-> [q EXCEPT !.source = SourceTag(lower(value))]]

\* the setter of Query.source, lines 488-512: ValueError unless the Query is
\* a search and the lower-cased value is allowed
set_source(q, value) ==
  IF ~q.search THEN [raised |-> TRUE, q |-> q]
  ELSE IF lower(value) \notin AllowedSources THEN [raised |-> TRUE, q |-> q]
  ELSE [raised |-> FALSE, q |-> [q EXCEPT !.source = SourceTag(lower(value))]]

\* Query.with_index, lines 514-522: a new Query from six of the fields; the
\* recursive flag is not handed on and takes its default
with_index(q, index) ==
  Query(q.query, q.source, q.search, q.start_time, index, q.type, FALSE)

\* `classified.source = value` is executed
SetSource(value) ==
  /\ classified # NoQuery
  /\ classified' = set_source(classified, value).q
  /\ source_assigned' = [value |-> value, raised |-> set_source(classified, value).raised]
  /\ UNCHANGED <<query_input, file_system, localfile_ok, reclassified, with_index_call, rebuilt>>
  /\ UNCHANGED <<wsVars, probeVars, decVars, evtVars>>

\* classified.with_index(index) is called
WithIndex(index) ==
  /\ classified # NoQuery
  /\ with_index_call' = [index |-> index, result |-> with_index(classified, index)]
  /\ UNCHANGED <<qryVars, source_assigned, rebuilt, wsVars, probeVars, decVars, evtVars>>

\* what is classified before it is operated on
OpsInputs ==
  {[text |-> Path_music_rock, is_path |-> TRUE],
   [text |-> <<"all:", "music", "/", "rock">>, is_path |-> TRUE],
   [text |-> Txt_lofi_beats, is_path |-> TRUE],
   [text |-> <<"https://", "open.spotify.com", "/", "playlist", "/", "abc123">>,
    is_path |-> FALSE],
   [text |-> <<"https://", "music.", "youtube.com", "/", "watch", "?", "v=", "abc123", "&", "t=", "90">>,
    is_path |-> FALSE]}

InitQueryOps == InitQuery /\ query_input \in OpsInputs

NextQueryOps ==
  \/ Classify
  \/ \E value \in SourceValues : SetSource(value)
  \/ \E index \in 0..MaxIndex : WithIndex(index)

SpecQueryOps == InitQueryOps /\ [][NextQueryOps]_vars

\* ------------------------------------------------ a Query from a track
\* SUPPORTED_SOURCES, node_features.py lines 17-43
SUPPORTED_SOURCES ==
  {"youtube", "soundcloud", "bandcamp", "twitch", "vimeo", "local", "http",
   "getyarn.io", "clypit", "speak", "pornhub", "reddit", "ocremix", "tiktok",
   "mixcloud", "soundgasm", "spotify", "applemusic", "deezer", "yandexmusic",
   "gcloud-tts"}

\* Query.__get_source_from_str, lines 534-576
get_source_from_str(source) ==
  CASE source = "spotify" -> "Spotify"
    [] source = "youtube" -> "YouTube Music"
    [] source = "soundcloud" -> "SoundCloud"
    [] source = "apple" -> "Apple Music"
    [] source = "local" -> "Local Files"
    [] source = "speak" -> "speak"
    [] source = "gcloud-tts" -> "Google TTS"
    [] source = "http" -> "HTTP"
    [] source = "twitch" -> "Twitch"
    [] source = "vimeo" -> "Vimeo"
    [] source = "bandcamp" -> "Bandcamp"
    [] source = "mixcloud" -> "Mixcloud"
    [] source = "getyarn" -> "GetYarn"
    [] source = "ocremix" -> "OverClocked ReMix"
    [] source = "reddit" -> "Reddit"
    [] source = "clypit" -> "Clyp.it"
    [] source = "pornhub" -> "PornHub"
    [] source = "soundgasm" -> "SoundGasm"
    [] source = "tiktok" -> "TikTok"
    [] source = "niconico" -> "Niconico"
    [] OTHER -> "YouTube"

\* Query.requires_capability, lines 579-619, with the source predicates of
\* lines 170-244 and 264-269 (is_pornhub, line 188: source == "Pornhub")
requires_capability(q) ==
  IF q.source = "Spotify" THEN "spotify"
  ELSE IF q.source = "Apple Music" THEN "applemusic"
  ELSE IF q.source \in {"YouTube", "YouTube Music"} THEN "youtube"
  ELSE IF q.source = "SoundCloud" THEN "soundcloud"
  ELSE IF q.source = "Local Files" THEN "local"
  ELSE IF q.source = "Twitch" THEN "twitch"
  ELSE IF q.source = "Bandcamp" THEN "bandcamp"
  ELSE IF q.source = "HTTP" THEN "http"
  ELSE IF q.source = "speak" THEN "speak"
  ELSE IF q.source = "Google TTS" THEN "gcloud-tts"
  ELSE IF q.source = "GetYarn" THEN "getyarn"
  ELSE IF q.source = "Clyp.it" THEN "clypit"
  ELSE IF q.source = "Pornhub" THEN "pornhub"
  ELSE IF q.source = "Reddit" THEN "reddit"
  ELSE IF q.source = "OverClocked ReMix" THEN "ocremix"
  ELSE IF q.source = "TikTok" THEN "tiktok"
  ELSE IF q.source = "Mixcloud" THEN "mixcloud"
  ELSE IF q.source = "SoundGasm" THEN "soundgasm"
  ELSE IF q.source = "Vimeo" THEN "vimeo"
  ELSE "youtube"

\* Query.from_base64, lines 525-531, from the source name and the uri of the
\* decoded track: the uri is classified and the source is overwritten
from_base64(source, uri, files, local_ok) ==
  [from_string(uri, FALSE, files, local_ok) EXCEPT !.source = get_source_from_str(source)]

\* the source names a decoded track can carry
CodecSources ==
  {"youtube", "soundcloud", "spotify", "applemusic", "deezer", "yandexmusic",
   "local", "http", "pornhub", "getyarn", "niconico", "twitch"}

\* Query.from_base64 is called on a track with this source name and uri
FromBase64(source, uri) ==
  /\ rebuilt' = [source |-> source, uri |-> uri,
                 result |-> from_base64(source, uri, file_system, localfile_ok)]
  /\ UNCHANGED <<qryVars, source_assigned, with_index_call, wsVars, probeVars, decVars, evtVars>>

InitRebuild == InitQuery /\ query_input = [text |-> <<>>, is_path |-> FALSE]

NextRebuild ==
  \E source \in CodecSources :
    \E uri \in {<<"https://", "www.", "youtube.com", "/", "watch", "?", "v=", "abc123">>,
                <<"https://", "example.com", "/", "rock">>, Path_music_rock} :
      FromBase64(source, uri)

SpecRebuild == InitRebuild /\ [][NextRebuild]_vars

\* ------------------------------------------------------------------ claims
\* C1: once an on-connect flush has completed, every payload that was queued
\* when it started is on the transport, and whatever was written before a
\* flushed payload was passed to send() earlier (payloads are numbered in the
\* order of their send() calls).
C1_QueuedDeliveredInOrder ==
  /\ \A p \in flushed : p \in Range(written)
  /\ \A i, j \in 1..Len(written) :
       (i < j /\ written[j] \in flushed) => written[i] < written[j]

\* C2: no payload is dropped: every payload send() took (it was not called
\* under manual shutdown, where it returns at once) is on the transport or
\* still in the pending queue.
C2_NoPayloadDropped ==
  \A p \in accepted : p \in Range(written) \/ p \in Range(message_queue)

\* C3: a payload sent by another task while the on-connect flush is in progress
\* is kept: it is in the queue or on the transport, also after the flush has
\* completed, and it is not on the transport while an earlier payload is
\* still queued.
C3_SendDuringFlushKept ==
  \A p \in during_flush :
    /\ p \in Range(written) \/ p \in Range(message_queue)
    /\ p \in Range(written) => \A q \in Range(message_queue) : q > p

\* C4: at most one connect task is live at any instant, so two handshakes
\* are never in progress together.
C4_OneLiveConnectTask ==
  /\ Cardinality({t \in Tasks : Live(t)}) <= 1
  /\ Cardinality({t \in Tasks : pc[t] = "handshake"}) <= 1

\* C4 witness: a rescheduled connect task is inside its own disconnect handler
\* while the disconnect handler of manual_closure runs too: both are about to
\* cancel and reschedule.
C4_Witness ==
  /\ connect_task > 1
  /\ pc[connect_task] = "disconnecting"
  /\ closer = "disconnect"

\* C5: once a handshake has failed with 401 or 403 no connect task is
\* scheduled any more.
C5_AuthFailureTerminal ==
  [][(\E t \in Tasks : pc[t] = "authfail") => connect_task' = connect_task]_vars

\* C6: once manual_closure has been called (with whatever argument) no connect
\* task is scheduled and no handshake attempt is started.
C6_NoConnectAfterManualClosure ==
  [][shutdown_requested =>
       /\ connect_task' = connect_task
       /\ \A t \in Tasks : pc'[t] = "handshake" => pc[t] = "handshake"]_vars

C8_UnknownFramesDropped ==
  [][\A t \in Tasks, f \in {"unknownOp", "unknownEvent"} :
       (RecvFrame(t, f) /\ ~manual_shutdown) => (pc'[t] = "listen" /\ ws' = ws)]_vars

\* C9: the backoff delays slept are non-decreasing until a connection attempt
\* succeeds, and the first delay after a success (or ever) is the base value.
C9_BackoffMonotone ==
  [][/\ (last_delay # 0 /\ last_delay' # 0) => last_delay' >= last_delay
     /\ (last_delay = 0 /\ last_delay' # 0) => last_delay' = BackoffBase]_vars

\* C10: a connect loop makes at most max_reconnect_attempts attempts when that
\* is finite, and gives up only then, after exactly that many; when it is -1
\* the loop never gives up, and a task that wakes from a backoff sleep goes
\* on to the next attempt unless it is shut down or cancelled.
C10_AttemptsBounded ==
  \A t \in Tasks :
    /\ max_reconnect_attempts # Infinite => attempt[t] <= max_reconnect_attempts
    /\ pc[t] = "exhausted" =>
         max_reconnect_attempts # Infinite /\ attempt[t] = max_reconnect_attempts
    /\ (pc[t] = "sleep" /\ max_reconnect_attempts = Infinite /\ ~manual_shutdown
          /\ attempt[t] < AttemptCap) => LoopContinues(t)

\* C10 witness: a connect loop gave up after two failed attempts.
C10_Witness ==
  \E t \in Tasks :
    /\ pc[t] = "exhausted"
    /\ max_reconnect_attempts = 2
    /\ attempt[t] = 2

\* C11: the session id is non-null only between a ready frame and the next
\* disconnect: once the disconnect handler (_websocket_closed) has run, the
\* session id is null again, until the next ready frame.
C11_SessionIdClearedOnDisconnect ==
  [][((\E t \in Tasks : Disconnected(t)) \/ CloserDisconnected)
       => session_id' = "none"]_vars

\* C12: for every guild at most one reconnect probe is live (created, not
\* finished, cancel() not called on it), whatever playerUpdate frames arrive.
C12_OneLiveProbePerGuild ==
  \A g \in Guilds :
    /\ Cardinality({i \in Probes : probe_guild[i] = g /\ ProbeLive(i)}) <= 1
    /\ \A i \in Probes :
         (probe_guild[i] = g /\ ProbeLive(i)) => player_reconnect_tasks[g] = i

\* a second probe was scheduled for a guild whose first probe was still live
C12_Witness ==
  \E g \in Guilds, i, j \in Probes :
    /\ probe_guild[i] = g /\ probe_guild[j] = g
    /\ probe_pc[i] = "cancelled"
    /\ ProbeLive(j)

C14_YoutubeThumbnail ==
  \A i \in 1..Len(decoded) :
    (decoded[i].raised = "none" /\ decoded[i].info.sourceName = Txt_youtube) =>
      LET c == ReadCommon(DataReader(b64decode(encoded_track)))
      IN /\ decoded[i].info.thumbnail =
              <<104, 116, 116, 112, 115, 58, 47, 47, 105, 109, 103, 46, 121, 111, 117, 116, 117, 98, 101, 46, 99, 111, 109, 47, 118, 105, 47>>
              \o decoded[i].info.identifier
              \o <<47, 109, 113, 100, 101, 102, 97, 117, 108, 116, 46, 106, 112, 103>>
         /\ decoded[i].info.isrc = Null
         /\ decoded[i].info.probeInfo = Null
         /\ ReadSourceSpecific(c.source, c.identifier, c.r).r = c.r

\* decode(track with sourceName "youtube", identifier "abc123") has the
\* thumbnail https://img.youtube.com/vi/abc123/mqdefault.jpg
C14_Witness ==
  /\ wire.kind = "valid"
  /\ wire.fields.source = Txt_youtube
  /\ wire.fields.identifier = Txt_abc123
  /\ Len(decoded) > 0
  /\ decoded[1].info.thumbnail =
       <<104, 116, 116, 112, 115, 58, 47, 47, 105, 109, 103, 46, 121, 111, 117, 116, 117, 98, 101, 46, 99, 111, 109, 47, 118, 105, 47, 97, 98, 99, 49, 50, 51, 47, 109, 113, 100, 101, 102, 97, 117, 108, 116, 46, 106, 112, 103>>

C15_KeptBytes ==
  IF wire.kind = "cut_text"
    THEN IF wire.kept % 4 = 0 THEN (wire.kept \div 4) * 3 ELSE -1
    ELSE wire.kept

\* the bytes up to the end of the length prefix of the source name
C15_CommonBytes == 4 + Len(WriteCommonPrefix(wire.fields))

C16_SearchDirectiveClassified ==
  \A p \in SearchPrefixes, t \in {Txt_lofi_beats, <<" ", "abc123">>} :
    (/\ query_input = [text |-> <<p, "search:">> \o t, is_path |-> FALSE]
     /\ classified # NoQuery) =>
      /\ classified.search
      /\ classified.source =
           (CASE p = "ytm" -> "YouTube Music" [] p = "yt" -> "YouTube"
              [] p = "sp" -> "Spotify" [] p = "sc" -> "SoundCloud"
              [] p = "am" -> "Apple Music")
      /\ query_identifier(classified) = <<p, "search:">> \o strip(t)

\* C17: a Spotify URL is classified as Spotify, not a search, of type
\* playlist when it contains "/playlist/", album when it contains "/album/",
\* single otherwise.
C17_SpotifyUrlClassified ==
  (query_input.text \in SpotifyUrls /\ ~query_input.is_path /\ classified # NoQuery) =>
    /\ classified.source = "Spotify"
    /\ ~classified.search
    /\ classified.type =
         (IF Contains(query_input.text, <<"/", "playlist", "/">>) THEN "playlist"
          ELSE IF Contains(query_input.text, <<"/", "album", "/">>) THEN "album"
          ELSE "single")

\* classify("https://open.spotify.com/playlist/abc123") is a Spotify playlist
C17_Witness ==
  /\ query_input.text = <<"https://", "open.spotify.com", "/", "playlist", "/", "abc123">>
  /\ classified.source = "Spotify"
  /\ classified.type = "playlist"
  /\ ~classified.search

\* C18: a string made of a recursion directive and the path of an existing
\* directory is classified as Local Files, album, recursive; without the
\* directive it is not recursive; an existing file gives type single.
C18_LocalPathClassified ==
  \A d \in {<<>>} \cup {<<x>> : x \in RecursionDirectives} :
    (/\ query_input = [text |-> d \o Path_music_rock, is_path |-> FALSE]
     /\ file_system[Path_music_rock] # "missing"
     /\ localfile_ok
     /\ classified # NoQuery) =>
      /\ classified.source = "Local Files"
      /\ classified.type = (IF file_system[Path_music_rock] = "dir" THEN "album" ELSE "single")
      /\ classified.recursive = (d # <<>>)

\* C19: a string that matches no provider pattern and no search directive and
\* is no existing local path is classified as a YouTube Music search for the
\* raw string.
C19_FallbackIsYouTubeMusicSearch ==
  (/\ query_input.text \in {Txt_lofi_beats, <<"abc123">>}
   /\ ~query_input.is_path
   /\ classified # NoQuery) =>
     /\ classified.source = "YouTube Music"
     /\ classified.search
     /\ classified.query = query_input.text

\* C20: classifying the canonical identifier of a Query the classifier
\* produced yields the same source, type, search flag and canonical identifier.
C20_ClassificationIdempotent ==
  reclassified # NoQuery =>
    /\ reclassified.source = classified.source
    /\ reclassified.type = classified.type
    /\ reclassified.search = classified.search
    /\ query_identifier(reclassified) = query_identifier(classified)

C22_ReadLoopEndReschedules ==
  [][\A t \in Tasks :
       /\ (/\ (\E f \in Frames : RecvFrame(t, f)) \/ ListenEnd(t)
           /\ ~manual_shutdown
           /\ ~is_shutting_down
           /\ pc'[t] # "listen") =>
             (pc'[t] = "disconnecting" /\ ws' = "none")
       /\ (Disconnected(t) /\ ~manual_shutdown) =>
             /\ connect_task' = connect_task + 1
             /\ pc'[connect_task'] = "start"
             /\ pc'[t] \notin Suspended]_vars

\* the handler of the first connect task has created the second one, and
\* manual_closure was never called
C22_Witness ==
  /\ connect_task = 2
  /\ pc[2] = "start"
  /\ pc[1] = "gone"
  /\ ~shutdown_requested
  /\ ~is_shutting_down

\* C23: once the disconnect handler has completed, the ready event is not set
\* (wait_until_ready blocks, `connecting` is true), also when the disconnect
\* came from a manual shutdown.
C23_ReadinessClearedByHandler ==
  [][((\E t \in Tasks : Disconnected(t)) \/ CloserDisconnected) => ~ready']_vars

\* C24: the manual-shutdown flag is sticky: once set it stays set, whatever
\* calls of manual_closure, send, connect or the disconnect handler follow.
C24_ManualShutdownSticky ==
  [][manual_shutdown => manual_shutdown']_vars

\* C25: node.patch_session is called for the resume configuration only while
\* a ready frame is handled, only with a resume key set and a resume timeout
\* above 0, and it succeeds at most once over the life of the connection
\* object, however many ready frames and reconnects there are.
C25_ResumeConfiguredOnce ==
  [][/\ \A t \in Tasks :
          (pc'[t] = "resume" /\ pc[t] # "resume") =>
            /\ RecvFrame(t, "ready")
            /\ resume_key = "key"
            /\ resume_timeout > 0
     /\ patched' <= 1]_vars

\* the configuration succeeded, the connection was lost, and the second
\* connect task has handled a ready frame of its own
C25_Witness ==
  /\ patched = 1
  /\ resuming_configured
  /\ connect_task = 2
  /\ pc[2] = "listen"
  /\ ready

\* C26: after a successful handshake a connect task goes through the feature
\* refresh, the backoff reset, the registration with NodeManager
\* (node_connect), the flush of the pending queue and the read loop in this
\* order: it flushes no queued message and handles no inbound frame before
\* node_connect has returned.
C26_HandshakeStepsInOrder ==
  [][\A t \in Tasks :
       /\ (pc'[t] = "features" /\ pc[t] # "features") => (pc[t] = "handshake" /\ ws' = "open")
       /\ (pc'[t] = "register" /\ pc[t] # "register") =>
            (pc[t] = "features" /\ backoff_exp'[t] = 0 /\ ~connecting')
       /\ (pc'[t] = "flush" /\ pc[t] # "flush") => pc[t] = "register"
       /\ (pc'[t] = "listen" /\ pc[t] # "listen") => pc[t] \in {"register", "flush", "resume"}
       /\ (pc'[t] = "resume" /\ pc[t] # "resume") => pc[t] = "listen"
       /\ FlushStep(t) => pc[t] = "flush"
       /\ (\E f \in Frames : RecvFrame(t, f)) => pc[t] = "listen"]_vars

\* a connect task has flushed the queue and reads frames
C26_Witness ==
  \E t \in Tasks : pc[t] = "listen" /\ flushed # {} /\ backoff_exp[t] = 0

\* C27: a playerUpdate frame that reports voice-connection false for a guild
\* whose player is playing, with the socket ready and the player connected
\* for more than 5 minutes, schedules a reconnect probe and leaves the
\* player's state as it was; in every other case with a player the state is
\* updated and no probe is scheduled; with no player nothing changes.
C27_PlayerUpdateProbeOrState ==
  [][\A g \in Guilds :
       PlayerUpdate(g) =>
         LET u == last_update'
             same == /\ player_reconnect_tasks' = player_reconnect_tasks
                     /\ probe_pc' = probe_pc
                     /\ probe_guild' = probe_guild
         IN IF ~u.has_player THEN same /\ ~u.updated
            ELSE IF (~u.connected) /\ u.is_playing /\ ready /\ u.stale
              THEN /\ player_reconnect_tasks'[g] # player_reconnect_tasks[g]
                   /\ probe_pc[player_reconnect_tasks'[g]] = "none"
                   /\ probe_pc'[player_reconnect_tasks'[g]] = "sleep"
                   /\ probe_guild'[player_reconnect_tasks'[g]] = g
                   /\ ~u.updated
              ELSE same /\ u.updated]_vars

\* a frame of guild 1 made a probe and left the state of the player alone
C27_Witness ==
  /\ last_update = [has_player |-> TRUE, connected |-> FALSE,
                    is_playing |-> TRUE, stale |-> TRUE, updated |-> FALSE]
  /\ ready
  /\ player_reconnect_tasks[1] # 0
  /\ probe_pc[player_reconnect_tasks[1]] = "sleep"

C29_EveryEventTypeEmitted ==
  (event_frame.type \in EventTypes /\ event_frame.lookup # "no"
     /\ event_frame.same_node /\ event_frame.current # "none" /\ ~is_shutting_down)
    => /\ PayloadClass(event_frame.type) # "dict"
       /\ \E k \in 1..Len(event_outcome.emitted) :
            event_outcome.emitted[k].event = event_frame.type

\* C30: every track-lifecycle event carries the player's current track only
\* when its encoded string equals the frame's encoded track; when they
\* differ, or there is no current track, it carries a fresh track made from
\* the frame's encoded payload.
C30_LifecycleTrackMatchesFrame ==
  event_frame.type \in TrackEventTypes =>
    \A k \in 1..Len(event_outcome.emitted) :
      event_outcome.emitted[k].track =
        IF event_frame.current # "none" /\ event_frame.current = event_frame.encodedTrack
          THEN [origin |-> "current", encoded |-> event_frame.current]
          ELSE [origin |-> "fresh", encoded |-> event_frame.encodedTrack]

\* C31: for a track whose sourceName is "local" or "http" the probe info is
\* read as a nullable string (a presence flag and, when it is set, a
\* length-prefixed string): an absent probe info decodes to probeInfo = null
\* and a present one to exactly the written string.
C31_ProbeInfoNullable ==
  (/\ wire.kind = "valid"
   /\ wire.fields.source \in {Txt_local, Txt_http}
   /\ wire.fields.probe_flagged) =>
    \A i \in 1..Len(decoded) :
      /\ decoded[i].raised = "none"
      /\ decoded[i].info.probeInfo = wire.fields.probe

\* C32: for a YouTube URL the start offset is the value of the t= parameter
\* (0 when absent); the Query is a playlist with index 0 when the URL
\* contains "&list=" and "watch?"; a playlist when it contains "playlist?";
\* otherwise, when it contains "list=", single if "&index=" is present and
\* playlist if not, with index 0; single in all other cases; the source is
\* YouTube Music exactly when the host has the "music." prefix.
C32_YoutubeUrlClassified ==
  (query_input.text \in YoutubeUrls /\ ~query_input.is_path /\ classified # NoQuery) =>
    LET q == query_input.text
        ts == {i \in 1..Len(q) : TimestampAt(q, i)}
    IN /\ ~classified.search
       /\ classified.start_time = (IF ts = {} THEN 0 ELSE int(q[First(ts) + 2]))
       /\ classified.source =
            (IF \E i \in 1..Len(q) : q[i] = "music." THEN "YouTube Music" ELSE "YouTube")
       /\ IF Contains(q, <<"&", "list=">>) /\ Contains(q, <<"watch", "?">>)
            THEN classified.type = "playlist" /\ classified.index = 0
          ELSE IF Contains(q, <<"playlist", "?">>)
            THEN classified.type = "playlist"
          ELSE IF Contains(q, <<"list=">>)
            THEN /\ classified.index = 0
                 /\ classified.type =
                      (IF Contains(q, <<"&", "index=">>) THEN "single" ELSE "playlist")
          ELSE classified.type = "single"

\* classify("https://youtube.com/playlist?list=rock&index=2") is a YouTube
\* playlist, and classify of a music. URL with t=90 starts at 90
C32_Witness ==
  \/ /\ query_input.text =
          <<"https://", "youtube.com", "/", "playlist", "?", "list=", "rock", "&", "index=", "2">>
     /\ classified.source = "YouTube"
     /\ classified.type = "playlist"
     /\ reclassified # NoQuery
  \/ /\ query_input.text =
          <<"youtu.be", "/", "abc123", "?", "list=", "rock", "&", "index=", "2">>
     /\ classified.type = "single"
     /\ classified.index = 0
     /\ reclassified # NoQuery

\* C40: for every YouTube URL the playlist index of the classified Query is
\* at least 0: "&index=N" yields N-1 and never a negative index.
C40_YoutubeIndexNonNegative ==
  (query_input.text \in YoutubeUrls /\ ~query_input.is_path /\ classified # NoQuery) =>
    classified.index >= 0

\* C33: "<prefix>search:<query>" with a prefix that is not recognised still
\* matches the search-directive step and is classified as a YouTube Music
\* search; a recognised prefix maps to its own source, never to the fallback.
C33_UnknownPrefixFallsBack ==
  \A t \in {Txt_lofi_beats, <<" ", "abc123">>} :
    /\ (/\ query_input = [text |-> <<"dz", "search:">> \o t, is_path |-> FALSE]
        /\ classified # NoQuery) =>
         /\ classified.search
         /\ classified.source = "YouTube Music"
         /\ classified.query = strip(t)
    /\ \A p \in {"sp", "sc", "am"} :
         (/\ query_input = [text |-> <<p, "search:">> \o t, is_path |-> FALSE]
          /\ classified # NoQuery) =>
           /\ classified.search
           /\ classified.source = SearchSource(p)

\* C34: assigning Query.source succeeds only when is_search is true and the
\* lower-cased value is one of ytm, yt, sp, sc, am, local, speak, tts://, and
\* then the source becomes the provider tag of the value; in every other case
\* the assignment raises and the source of the Query is unchanged.
C34_SourceSetterGuarded ==
  [][\A value \in SourceValues :
       SetSource(value) =>
         LET low == IF value = "YT" THEN "yt" ELSE IF value = "Sc" THEN "sc" ELSE value
             tags == [ytm |-> "YouTube Music", yt |-> "YouTube", sp |-> "Spotify",
                      sc |-> "SoundCloud", am |-> "Apple Music", local |-> "Local Files",
                      speak |-> "speak", tts |-> "Google TTS"]
             key == IF low = "tts://" THEN "tts" ELSE low
         IN IF classified.search /\ low \in {"ytm", "yt", "sp", "sc", "am", "local", "speak", "tts://"}
              THEN /\ ~source_assigned'.raised
                   /\ classified' = [classified EXCEPT !.source = tags[key]]
              ELSE /\ source_assigned'.raised
                   /\ classified' = classified]_vars

\* "Sc" was assigned to a search Query, whose source is SoundCloud now
C34_Witness ==
  /\ source_assigned = [value |-> "Sc", raised |-> FALSE]
  /\ classified.search
  /\ classified.source = "SoundCloud"
  /\ query_input.text = Txt_lofi_beats

\* C39: with_index(i) returns a new Query that equals the original in query
\* value, source, is-search flag, start offset, type and recursive flag and
\* differs only in index = i; the original Query is unchanged.
C39_WithIndexCopies ==
  [][\A index \in 0..MaxIndex :
       WithIndex(index) =>
         /\ with_index_call'.result = [classified EXCEPT !.index = index]
         /\ classified' = classified]_vars

\* C35: for every codec sourceName the Query rebuilt by from_base64 carries
\* the source tag of that provider, so that requires_capability returns that
\* sourceName, however the embedded uri classifies.
C35_RebuiltSourceIsCodecSource ==
  (rebuilt.source \in {"youtube", "soundcloud", "spotify", "applemusic", "deezer",
                       "yandexmusic", "local", "http", "pornhub"}) =>
    requires_capability(rebuilt.result) = rebuilt.source

\* C38: for every Query the classifier can produce, requires_capability
\* returns a member of SUPPORTED_SOURCES, and it is the capability of the
\* Query's own provider: none is reported under the capability of another.
C38_CapabilitySupported ==
  rebuilt.result # NoQuery =>
    /\ requires_capability(rebuilt.result) \in SUPPORTED_SOURCES
    /\ requires_capability(rebuilt.result) = "youtube" =>
         rebuilt.result.source \in {"YouTube", "YouTube Music"}

\* C36: whenever the node is ready and a resume key with a positive timeout
\* was requested, resume is configured on the current session: the first
\* ready frame of every connection, which opens a new session (connect sends
\* no header that would resume one), is followed by a resume-configuration
\* request.
C36_ResumeConfiguredPerSession ==
  [][\A t \in Tasks :
       (/\ RecvFrame(t, "ready")
        /\ ~ready
        /\ ~manual_shutdown
        /\ resume_key = "key"
        /\ resume_timeout > 0) => pc'[t] = "resume"]_vars

\* C37: each inbound event frame causes at most one domain event to be
\* dispatched to the event sink, for every event type.
C37_OneDispatchPerFrame ==
  Len(event_outcome.emitted) <= 1


Spec == Init /\ [][Next]_vars
====
